---- MODULE Spec2Model ----
(***************************************************************************)
(* Soda -> Collibra reconciliation engine                                  *)
(* (src/soda/soda-collibra-integration-configuration).                     *)
(*                                                                         *)
(* Strings are sequences of one-character strings, so that upper-casing,   *)
(* replacement, splitting, concatenation and suffix matching are computed  *)
(* the way the Python code computes them.                                  *)
(***************************************************************************)
EXTENDS Integers, Sequences, FiniteSets, TLC

(***************************************************************************)
(* Bounds of the model.                                                    *)
(***************************************************************************)
\* datasets returned by the source in one run
NumDatasets == 2
\* checks the source returns for one dataset
MaxChecks == 2
\* external calls that fail (after the retry layer gave up) in one run
MaxFaults == 1
\* runs of the engine against the same catalog
MaxRuns == 2
\* records the source holds behind a list endpoint
MaxRecords == 4
\* the size parameter of the list urls (1000 in get_checks), scaled down
PageSize == 2
MaxDepth == 2
MaxAttributes == 3
MaxOwners == 3
MaxNames == 3
MaxRows == 3
MaxFailedCritical == 1
NumThreads == 2
PoolMaxSize == 1
PoolMinSize == 1
MaxPoolOps == 6
MaxWaitTime == 3
MaxStep == 2

(***************************************************************************)
(* Strings                                                                 *)
(***************************************************************************)
None == <<>>

LowerAlphabet == <<"a","b","c","d","e","f","g","h","i","j","k","l","m",
                   "n","o","p","q","r","s","t","u","v","w","x","y","z">>
UpperAlphabet == <<"A","B","C","D","E","F","G","H","I","J","K","L","M",
                   "N","O","P","Q","R","S","T","U","V","W","X","Y","Z">>

\* c.upper() and c.lower() of one character
UpperOf == [c \in {LowerAlphabet[i] : i \in 1..26} |->
              UpperAlphabet[CHOOSE i \in 1..26 : LowerAlphabet[i] = c]]
LowerOf == [c \in {UpperAlphabet[i] : i \in 1..26} |->
              LowerAlphabet[CHOOSE i \in 1..26 : UpperAlphabet[i] = c]]
UpperChar(c) == IF c \in DOMAIN UpperOf THEN UpperOf[c] ELSE c
LowerChar(c) == IF c \in DOMAIN LowerOf THEN LowerOf[c] ELSE c

\* str.upper(), str.lower(), str.replace(old, new) for one-character old/new
Upper(s) == [i \in 1..Len(s) |-> UpperChar(s[i])]
Lower(s) == [i \in 1..Len(s) |-> LowerChar(s[i])]
Replace(s, old, new) == [i \in 1..Len(s) |-> IF s[i] = old THEN new ELSE s[i]]

\* str.endswith(suffix)
EndsWith(s, suffix) ==
    /\ Len(suffix) <= Len(s)
    /\ SubSeq(s, Len(s) - Len(suffix) + 1, Len(s)) = suffix

\* str(n) for a natural number n
DigitChars == <<"0","1","2","3","4","5","6","7","8","9">>
RECURSIVE ToStr(_)
ToStr(n) == IF n < 10 THEN <<DigitChars[n + 1]>>
            ELSE ToStr(n \div 10) \o <<DigitChars[(n % 10) + 1]>>

\* str.split(sep) for a one-character separator: the list of segments
RECURSIVE SplitFrom(_, _, _, _)
SplitFrom(s, sep, i, cur) ==
    IF i > Len(s) THEN <<cur>>
    ELSE IF s[i] = sep THEN <<cur>> \o SplitFrom(s, sep, i + 1, <<>>)
    ELSE SplitFrom(s, sep, i + 1, Append(cur, s[i]))
Split(s, sep) == SplitFrom(s, sep, 1, <<>>)

\* int(s) for a string of digits
RECURSIVE ParseNat(_)
ParseNat(s) ==
    IF s = <<>> THEN 0
    ELSE ParseNat(SubSeq(s, 1, Len(s) - 1)) * 10
         + (CHOOSE d \in 0..9 : DigitChars[d + 1] = s[Len(s)])

\* sep.join(parts)
RECURSIVE Join(_, _)
Join(parts, sep) ==
    IF Len(parts) = 0 THEN <<>>
    ELSE IF Len(parts) = 1 THEN parts[1]
    ELSE parts[1] \o sep \o Join(Tail(parts), sep)

(***************************************************************************)
(* Identity and naming (utils.py, integration.py)                          *)
(***************************************************************************)
\* os.getenv('SNOWFLAKE_DATABASE', 'DATA PLATFORM XYZ'): the default
Database == <<"D","A","T","A"," ","P","L","A","T","F","O","R","M"," ","X","Y","Z">>

UnknownSchema == <<"U","N","K","N","O","W","N">>

\* the segment normalisation of generate_asset_name
NormalizeSegment(s) == Replace(Replace(Upper(s), " ", "_"), "-", "_")

\* the while loop of generate_asset_name: first free "base (n)"
RECURSIVE Disambiguate(_, _, _, _)
Disambiguate(base_name, asset_name, counter, seen_names) ==
    IF asset_name \in seen_names
    THEN Disambiguate(base_name,
                      base_name \o <<" ", "(">> \o ToStr(counter) \o <<")">>,
                      counter + 1, seen_names)
    ELSE asset_name

\* generate_asset_name with one suffix attempt in place of the while loop
generate_asset_name_once(check_name, dataset_name, seen_names, database, schema, column) ==
    LET db     == NormalizeSegment(IF database = None THEN Database ELSE database)
        sch    == IF schema # None THEN NormalizeSegment(schema) ELSE UnknownSchema
        table  == NormalizeSegment(dataset_name)
        parts  == IF column # None
                  THEN <<db, sch, table, NormalizeSegment(column)>>
                  ELSE <<db, sch, table>>
        base_name == Join(parts, <<"-">>) \o <<" ">> \o check_name
    IN  IF base_name \in seen_names
        THEN base_name \o <<" ", "(">> \o ToStr(1) \o <<")">>
        ELSE base_name

\* generate_asset_name: "[DATABASE]-[SCHEMA]-[TABLE][-COLUMN] NAME"
generate_asset_name(check_name, dataset_name, seen_names, database, schema, column) ==
    LET db     == NormalizeSegment(IF database = None THEN Database ELSE database)
        sch    == IF schema # None THEN NormalizeSegment(schema) ELSE UnknownSchema
        table  == NormalizeSegment(dataset_name)
        parts  == IF column # None
                  THEN <<db, sch, table, NormalizeSegment(column)>>
                  ELSE <<db, sch, table>>
        base_name == Join(parts, <<"-">>) \o <<" ">> \o check_name
    IN  Disambiguate(base_name, base_name, 1, seen_names)

\* _extract_database_and_schema: the schema of a dataset
ExtractSchema(dataset) ==
    LET parts == Split(dataset.qualifiedName, ".")
        fromQualified == IF dataset.qualifiedName # None /\ Len(parts) >= 2
                         THEN Upper(parts[2]) ELSE None
        dsParts == Split(dataset.datasource, "_")
        fromDatasource == IF fromQualified = None /\ dataset.datasource # None
                             /\ Len(dsParts) > 1
                          THEN Upper(dsParts[Len(dsParts)]) ELSE fromQualified
    IN  IF fromDatasource = None THEN UnknownSchema ELSE fromDatasource

(***************************************************************************)
(* Configuration and the source's data                                     *)
(***************************************************************************)
\* the run's resolved configuration (config.py)
Config ==
    [ soda_no_collibra_dataset_skip_checks |-> TRUE,
      sync_monitors |-> FALSE,
      filter_datasets_to_sync_to_collibra |-> FALSE,
      soda_collibra_default_domain |-> "dom0",
      \* json.loads(soda_collibra_domain_mapping)
      soda_collibra_domain_mapping |-> [v \in {"a"} |-> "domA"] ]

\* datasets the source may return: name, qualifiedName, datasource name and
\* the value of the domain attribute ("" when the attribute is absent)
DsT  == [name |-> <<"t">>, qualifiedName |-> None,
         datasource |-> <<"x","_","s">>, domainAttr |-> ""]
DsU  == [name |-> <<"u">>, qualifiedName |-> None,
         datasource |-> <<"x","_","s">>, domainAttr |-> ""]
DsTa == [name |-> <<"t">>, qualifiedName |-> None,
         datasource |-> <<"y","_","s">>, domainAttr |-> "a"]
DatasetPool == {DsT, DsU, DsTa}

\* checks and monitors the source may return for a dataset
CheckC == [name |-> <<"c">>, column |-> None, kind |-> "check"]
CheckX == [name |-> <<"x","_","_","_","t">>, column |-> <<"k">>, kind |-> "check"]
MonitorM == [name |-> <<"m">>, column |-> None, kind |-> "monitor"]
CheckPool == {CheckC, CheckX}

SeqsUpTo(S, n) == UNION {[1..m -> S] : m \in 0..n}

\* what GET checks?datasetId=.. may answer: up to MaxChecks checks, and
\* possibly a monitor in front of them
SourceCheckLists ==
    LET lists == SeqsUpTo(CheckPool, MaxChecks)
    IN  lists \cup {<<MonitorM>> \o l : l \in lists}

(***************************************************************************)
(* State                                                                   *)
(***************************************************************************)
VARIABLES
    datasets,       \* the datasets the source returns, in list order
    runsLeft,       \* further runs the engine may be started for
    faults,         \* external calls that failed in this run
    pc,             \* the engine's position
    idx,            \* index of the dataset being processed
    tableAssets,    \* table assets the catalog holds for the current dataset
    domain_id,      \* resolved domain of the current dataset
    checks,         \* the checks fetched for the current dataset
    k,              \* index of the check being processed in a per-check loop
    seen_names,     \* seen_names of _prepare_check_assets
    assets_to_create, assets_to_update,
    asset_cache,    \* self._asset_cache
    domain_mappings_cache,  \* self._domain_mappings_cache
    catalog,        \* check assets of the target catalog
    nextId,         \* next asset id the catalog hands out
    metrics,        \* MetricsCollector.overall_metrics
    dataset_metrics,\* MetricsCollector.dataset_metrics, keyed by dataset name
    ops,            \* external operations of the current dataset pass
    outcome,        \* per dataset index: how _process_datasets counted it
    passErrors,     \* per dataset index: errors recorded during its pass
    attempted,      \* dataset indexes handed to _process_single_dataset
    assigned,       \* per check of the current dataset: asset of DiffAssets
    writes,         \* attribute/relation write calls issued in this run
    deletions,      \* bulk delete calls of this run
    confirmed,      \* asset ids the catalog returned to the engine in this run
    applied,        \* the assets the catalog created and updated in this run
    recorded,       \* the errors add_error was given for a dataset in this run
    exit_code,      \* what run_integration returned, -1 until it returns
    outage,         \* the system that cannot be reached at all, or "none"
    soda_content,   \* the checks the source holds for each dataset, <<>> if
                    \* each call of the source may answer anything
    attribute_store,\* the attributes in the catalog: (asset id, type) pairs
    source,         \* the source's check records: the dataset id of each
    request_url,    \* the url of the list call SodaClient.execute_request got
    ppc,            \* the position of the list call
    page, size, total_pages, base_url, all_items,  \* _handle_pagination locals
    requested,      \* the urls requested from the source, in order
    wrapper,        \* the retry layer around the followed external call
    func,           \* the client function the retry layer wraps
    cpc,            \* the position of the followed external call
    attempt_number, \* attempts of the wrapped function started so far
    is_retry,       \* the is_retry argument of the running client function
    depth,          \* self-calls of the client function within the attempt
    sent,           \* the HTTP requests sent, in order, with their answers
    sleeps,         \* the time.sleep calls, in order
    raised,         \* the exception the last attempt ended with
    call_metrics,   \* api_calls_made and api_calls_failed of the shared metrics
    known_types,    \* the attribute type ids the catalog knows
    attributes,     \* the argument of the running attribute bulk function
    attr_method,    \* the attribute bulk function followed
    apc,            \* its position
    attr_result,    \* the list it returned
    stored,         \* the attributes the catalog wrote
    attr_requests,  \* the bulk requests sent, with their answers
    attribute_metrics, \* attributes_created and table_relations_created
    relation_store, \* the relations the catalog created
    collibra_owners,\* the owners the responsibilities of the table asset name
    opc,            \* the position of the ownership synchronisation
    oi,             \* index of the owner being mapped
    soda_user_ids, missing_emails,  \* of _map_collibra_owners_to_soda_users
    owner_pushes,   \* the owner sets sent to update_dataset
    owner_errors,   \* the errors the synchronisation added to the dataset
    owner_faults,   \* the calls of the synchronisation that raised
    used_names,     \* the seen_names set handed to generate_asset_name
    generated,      \* the calls of generate_asset_name, in order
    soda_check,     \* the check whose attribute definitions are built
    dpc,            \* how far the definitions of the check are built
    attribute_definitions,  \* the (type, value) pairs appended so far
    strict,         \* the strict argument of run_complete_pipeline
    layer_index,    \* index of the layer the pipeline is at
    results,        \* the result of each layer so far, in order
    sync_calls,     \* the layers sync_layer_metadata was called for, in order
    pipeline_status,\* the status run_complete_pipeline returned
    gpc,            \* the position of the pipeline
    pool_queue,     \* ConnectionPool._pool: the connections in the queue
    pool_created,   \* ConnectionPool._created
    pool_active,    \* ConnectionPool._active
    pool_lock,      \* the thread that holds ConnectionPool._lock, 0 if none
    threads,        \* per thread: its position, its connection, the value of
                    \* _active it read
    live,           \* the connections the factory made that are not closed
    next_conn,      \* the connection the factory makes next
    pool_ops,       \* the calls of get, put and close_all started so far
    wpc,            \* the position of wait_for_job_completion
    elapsed_time,   \* the time since wait_for_job_completion started
    consecutive_errors, \* its count of failed status retrievals in a row
    job_result,     \* what it returned or raised
    reported        \* what get_job_status answered, oldest first

engineVars == <<datasets, runsLeft, faults, pc, idx, tableAssets, domain_id, checks,
          k, seen_names, assets_to_create, assets_to_update, asset_cache,
          domain_mappings_cache, catalog, nextId, metrics, dataset_metrics,
          ops, outcome, passErrors, attempted, assigned, writes, deletions,
          confirmed, applied, recorded, exit_code, outage, soda_content,
          attribute_store>>

clientVars == <<source, request_url, ppc, page, size, total_pages, base_url,
                all_items, requested>>

callVars == <<wrapper, func, cpc, attempt_number, is_retry, depth, sent, sleeps,
              raised, call_metrics>>

attrVars == <<known_types, attributes, attr_method, apc, attr_result, stored,
              attr_requests, attribute_metrics, relation_store>>

ownerVars == <<collibra_owners, opc, oi, soda_user_ids, missing_emails, owner_pushes,
               owner_errors, owner_faults>>

nameVars == <<used_names, generated>>

defVars == <<soda_check, dpc, attribute_definitions>>

pipeVars == <<strict, layer_index, results, sync_calls, pipeline_status, gpc>>

poolVars == <<pool_queue, pool_created, pool_active, pool_lock, threads, live,
              next_conn, pool_ops>>

waitVars == <<wpc, elapsed_time, consecutive_errors, job_result, reported>>

functionVars == <<nameVars, defVars, pipeVars, poolVars, waitVars>>

componentVars == <<callVars, attrVars, ownerVars, functionVars>>

vars == <<engineVars, clientVars, componentVars>>

catalogVars == <<catalog, nextId>>
passVars == <<tableAssets, domain_id, checks, k, seen_names,
              assets_to_create, assets_to_update, assigned>>

ZeroMetrics ==
    [ datasets_processed |-> 0, datasets_skipped |-> 0, datasets_failed |-> 0,
      checks_processed |-> 0, checks_created |-> 0, checks_updated |-> 0,
      checks_deleted |-> 0, owners_synced |-> 0, ownership_sync_failed |-> 0,
      errors |-> <<>> ]

\* DatasetMetrics(dataset_name=...)
NewDatasetMetrics(dataset_name) ==
    [ dataset_name |-> dataset_name, checks_found |-> 0, checks_created |-> 0, checks_updated |-> 0,
      checks_deleted |-> 0, owners_synced |-> 0, errors |-> <<>> ]

\* a fresh SodaCollibraIntegration instance (__init__)
FreshInstance ==
    /\ asset_cache = <<>>
    /\ domain_mappings_cache = "unset"
    /\ metrics = ZeroMetrics
    /\ dataset_metrics = <<>>

(***************************************************************************)
(* The target catalog (clients/collibra_client.py)                         *)
(***************************************************************************)
\* GET rest/2.0/assets with name, nameMatchMode and optional domainId, as
\* find_asset asks for it; domain "" stands for "no domainId parameter"
find_asset(cat, name, domain, name_match_mode) ==
    { a \in cat :
        /\ (domain = "" \/ a.domain = domain)
        /\ IF name_match_mode = "EXACT" THEN a.name = name
                                        ELSE EndsWith(a.name, name) }

Ids(assets) == {a.id : a \in assets}

\* PATCH rest/2.0/assets/bulk: every request moves/renames its asset
RECURSIVE change_assets_bulk(_, _)
change_assets_bulk(cat, reqs) ==
    IF reqs = <<>> THEN cat
    ELSE LET r == Head(reqs)
             moved == { IF a.id = r.id
                        THEN [a EXCEPT !.name = r.name, !.domain = r.domainId]
                        ELSE a : a \in cat }
         IN  change_assets_bulk(moved, Tail(reqs))

\* POST rest/2.0/assets/bulk: the created assets, ids in request order
add_assets_bulk(reqs, firstId, owner) ==
    { [id |-> firstId + i - 1, name |-> reqs[i].name,
       domain |-> reqs[i].domainId, owner |-> owner] : i \in 1..Len(reqs) }

\* DELETE rest/2.0/assets/bulk
delete_bulk_assets(cat, asset_ids) == { a \in cat : a.id \notin asset_ids }

(***************************************************************************)
(* The engine's helpers (integration.py)                                   *)
(***************************************************************************)
\* _get_domain_id
get_domain_id(dataset) ==
    LET mapping == Config.soda_collibra_domain_mapping
        v == dataset.domainAttr
    IN  IF v # "" /\ v \in DOMAIN mapping
        THEN mapping[v] ELSE Config.soda_collibra_default_domain

\* cache_key of _find_check_asset and _update_asset_cache_with_assets
CacheKey(asset_name, domain) ==
    IF domain # "" THEN <<asset_name, domain>> ELSE <<asset_name>>

\* _find_check_asset: the result, read from the cache when the key is there
FindCheckAsset(cache, cat, asset_name, domain) ==
    IF CacheKey(asset_name, domain) \in DOMAIN cache
    THEN cache[CacheKey(asset_name, domain)]
    ELSE find_asset(cat, asset_name, domain, "EXACT")

\* _find_check_asset: the cache after the call
CacheAfterFind(cache, cat, asset_name, domain) ==
    IF CacheKey(asset_name, domain) \in DOMAIN cache THEN cache
    ELSE (CacheKey(asset_name, domain) :>
             find_asset(cat, asset_name, domain, "EXACT")) @@ cache

\* the cache filled from the requests, which carry no id the catalog gave
RECURSIVE UpdateAssetCacheNoId(_, _)
UpdateAssetCacheNoId(cache, assets) ==
    IF assets = {} THEN cache
    ELSE LET a == CHOOSE x \in assets : TRUE
         IN  UpdateAssetCacheNoId(
                (CacheKey(a.name, a.domain) :> {[a EXCEPT !.id = 0]}) @@ cache,
                assets \ {a})

\* _update_asset_cache_with_assets
RECURSIVE UpdateAssetCache(_, _)
UpdateAssetCache(cache, assets) ==
    IF assets = {} THEN cache
    ELSE LET a == CHOOSE x \in assets : TRUE
         IN  UpdateAssetCache((CacheKey(a.name, a.domain) :> {a}) @@ cache,
                              assets \ {a})

\* the name _prepare_check_assets and _sync_check_deletions give a check,
\* with the seen_names set of their loop
PreparedName(dataset, check, seen) ==
    generate_asset_name(check.name, dataset.name, seen, Database,
                        ExtractSchema(dataset), check.column)

\* the name _get_check_asset_id looks a check up by: a fresh seen_names set
LookupName(dataset, check) ==
    generate_asset_name(check.name, dataset.name, {}, Database,
                        ExtractSchema(dataset), check.column)

\* soda_asset_names of _sync_check_deletions: the names of all checks
RECURSIVE DesiredNamesFrom(_, _, _, _)
DesiredNamesFrom(dataset, chks, i, seen) ==
    IF i > Len(chks) THEN seen
    ELSE DesiredNamesFrom(dataset, chks, i + 1,
                          seen \cup {PreparedName(dataset, chks[i], seen)})
DesiredNames(dataset, chks) == DesiredNamesFrom(dataset, chks, 1, {})

\* search_pattern of _sync_check_deletions
DeletionPattern(dataset) == <<"_", "_", "_">> \o Lower(dataset.name)

\* assets_to_delete without the "not in soda_asset_names" filter
AssetsToDeleteAll(found, soda_asset_names) == { a.id : a \in found }

\* assets_to_delete of _sync_check_deletions
AssetsToDelete(found, soda_asset_names) ==
    { a.id : a \in { x \in found : x.name \notin soda_asset_names } }

\* the monitor filter of _get_dataset_checks
RECURSIVE FilterChecks(_)
FilterChecks(items) ==
    IF items = <<>> THEN <<>>
    ELSE IF Config.sync_monitors \/ Head(items).kind = "check"
         THEN <<Head(items)>> \o FilterChecks(Tail(items))
         ELSE FilterChecks(Tail(items))

(***************************************************************************)
(* Metrics (metrics.py)                                                    *)
(***************************************************************************)
\* ProcessingMetrics.add_error / DatasetMetrics.add_error
add_error(m, error) == [m EXCEPT !.errors = Append(@, error)]

HasDataset(dm, name) == \E i \in 1..Len(dm) : dm[i].dataset_name = name
DmIndex(dm, name) == CHOOSE i \in 1..Len(dm) : dm[i].dataset_name = name

\* MetricsCollector.start_dataset_processing: dataset_metrics[name] = fresh
start_dataset_processing(dm, name) ==
    IF HasDataset(dm, name)
    THEN [dm EXCEPT ![DmIndex(dm, name)] = NewDatasetMetrics(name)]
    ELSE Append(dm, NewDatasetMetrics(name))

\* the dataset errors whose text holds "ownership"
OwnershipErrors ==
    { "No Collibra asset found for ownership sync", "Ownership sync failed",
      "Failed to update Soda dataset ownership" }

\* MetricsCollector.aggregate_dataset_metrics
RECURSIVE aggregate_dataset_metrics(_, _)
aggregate_dataset_metrics(m, dm) ==
    IF dm = <<>> THEN m
    ELSE aggregate_dataset_metrics(
            [m EXCEPT !.checks_processed = @ + Head(dm).checks_found,
                      !.checks_created = @ + Head(dm).checks_created,
                      !.checks_updated = @ + Head(dm).checks_updated,
                      !.checks_deleted = @ + Head(dm).checks_deleted,
                      !.owners_synced = @ + Head(dm).owners_synced,
                      !.ownership_sync_failed = @ +
                          (IF \E i \in 1..Len(Head(dm).errors) :
                                 Head(dm).errors[i] \in OwnershipErrors
                           THEN 1 ELSE 0),
                      !.errors = @ \o Head(dm).errors],
            Tail(dm))

(***************************************************************************)
(* Control flow of one dataset pass                                        *)
(***************************************************************************)
\* the order with the deletion sync placed before the attribute phase
StageAfterDeleteFirst(stage) ==
    CASE stage = "Verify"        -> "ResolveDomain"
      [] stage = "ResolveDomain" -> "FetchChecks"
      [] stage = "FetchChecks"   -> "DiffAssets"
      [] stage = "DiffAssets"    -> "ApplyUpdate"
      [] stage = "ApplyUpdate"   -> "ApplyCreate"
      [] stage = "ApplyCreate"   -> "SyncDeletions"
      [] stage = "SyncDeletions" -> "SyncAttributesAndRelations"
      [] stage = "SyncAttributesAndRelations" -> "SyncOwnership"
      [] stage = "SyncOwnership" -> "Done"

\* the order of _process_single_dataset and _process_dataset_checks
StageAfter(stage) ==
    CASE stage = "Verify"        -> "ResolveDomain"
      [] stage = "ResolveDomain" -> "FetchChecks"
      [] stage = "FetchChecks"   -> "DiffAssets"
      [] stage = "DiffAssets"    -> "ApplyUpdate"
      [] stage = "ApplyUpdate"   -> "ApplyCreate"
      [] stage = "ApplyCreate"   -> "SyncAttributesAndRelations"
      [] stage = "SyncAttributesAndRelations" -> "SyncDeletions"
      [] stage = "SyncDeletions" -> "SyncOwnership"
      [] stage = "SyncOwnership" -> "Done"

Dataset == datasets[idx]
Dm == DmIndex(dataset_metrics, Dataset.name)
Op(stage, op) == [stage |-> stage, op |-> op, ds |-> idx]

\* the for loop of _process_datasets moves on to the next dataset
Advance ==
    /\ idx' = idx + 1
    /\ pc' = IF idx + 1 > Len(datasets) THEN "Aggregate" ELSE "Verify"
    /\ tableAssets' = 0
    /\ domain_id' = ""
    /\ checks' = <<>>
    /\ k' = 0
    /\ seen_names' = {}
    /\ assets_to_create' = <<>>
    /\ assets_to_update' = <<>>
    /\ assigned' = <<>>

\* the errors the pass added to the dataset's metrics before it raised
NewDatasetErrors(dm) ==
    SubSeq(dm[Dm].errors, Len(dataset_metrics[Dm].errors) + 1, Len(dm[Dm].errors))

\* _process_single_dataset returned: _process_datasets counts the dataset
Returned(m, dm, erred) ==
    /\ metrics' = [m EXCEPT !.datasets_processed = @ + 1]
    /\ dataset_metrics' = dm
    /\ outcome' = [outcome EXCEPT ![idx] = "processed"]
    /\ passErrors' = [passErrors EXCEPT ![idx] = @ \/ erred]
    /\ Advance

\* the except branch re-raising: the loop over the datasets ends
RaisedHalts(m, dm) ==
    /\ metrics' = [add_error(m, "Failed to process dataset")
                      EXCEPT !.datasets_failed = @ + 1]
    /\ recorded' = recorded \o NewDatasetErrors(dm)
                             \o <<"Failed to process dataset">>
    /\ dataset_metrics' = dm
    /\ outcome' = [outcome EXCEPT ![idx] = "failed"]
    /\ passErrors' = [passErrors EXCEPT ![idx] = TRUE]
    /\ idx' = Len(datasets) + 1
    /\ pc' = "Aggregate"
    /\ tableAssets' = 0
    /\ domain_id' = ""
    /\ checks' = <<>>
    /\ k' = 0
    /\ seen_names' = {}
    /\ assets_to_create' = <<>>
    /\ assets_to_update' = <<>>
    /\ assigned' = <<>>

\* an exception left _process_single_dataset: the except branch
Raised(m, dm) ==
    /\ metrics' = [add_error(m, "Failed to process dataset")
                      EXCEPT !.datasets_failed = @ + 1]
    /\ recorded' = recorded \o NewDatasetErrors(dm)
                             \o <<"Failed to process dataset">>
    /\ dataset_metrics' = dm
    /\ outcome' = [outcome EXCEPT ![idx] = "failed"]
    /\ passErrors' = [passErrors EXCEPT ![idx] = TRUE]
    /\ Advance

CanFail == faults < MaxFaults

(***************************************************************************)
(* Actions                                                                 *)
(***************************************************************************)
NoOutcome == [i \in 1..NumDatasets |-> "none"]
NoErrors == [i \in 1..NumDatasets |-> FALSE]

\* before the first run: an empty catalog and a fresh engine instance
InitRun ==
    /\ faults = 0
    /\ pc = "Start"
    /\ idx = 0
    /\ tableAssets = 0
    /\ domain_id = ""
    /\ checks = <<>>
    /\ k = 0
    /\ seen_names = {}
    /\ assets_to_create = <<>>
    /\ assets_to_update = <<>>
    /\ FreshInstance
    /\ catalog = {}
    /\ nextId = 1
    /\ ops = <<>>
    /\ outcome = NoOutcome
    /\ passErrors = NoErrors
    /\ attempted = <<>>
    /\ assigned = <<>>
    /\ writes = {}
    /\ deletions = <<>>
    /\ confirmed = {}
    /\ applied = [created |-> 0, updated |-> 0, attributes |-> 0]
    /\ recorded = <<>>
    /\ exit_code = -1
    /\ attribute_store = {}

\* both systems can be reached, single calls may fail
InitEngine ==
    /\ InitRun
    /\ outage = "none"
    /\ soda_content = <<>>

\* a call to a system fails: the call itself, or the system is unreachable
Fails(system) == CanFail \/ outage = system

\* main.run_integration: 0 when run() returned, 1 when an exception was caught
run_integration_inverted(failed) == IF failed THEN 0 ELSE 1
run_integration(failed) == IF failed THEN 1 ELSE 0

\* run_integration: the constructor, then run() up to the dataset loop:
\* load_config, validate_config, _test_connections, _get_datasets,
\* _filter_datasets
StartRun ==
    /\ pc = "Start"
    /\ \/ /\ outage # "soda"
          /\ pc' = IF Len(datasets) = 0 THEN "Aggregate" ELSE "Verify"
          /\ idx' = 1
          /\ UNCHANGED <<faults, metrics, exit_code>>
       \/ \* a call to the source raised: run() records it and re-raises
          /\ Fails("soda")
          /\ faults' = faults + 1
          /\ metrics' = add_error(metrics, "Integration failed")
          /\ pc' = "Aborted"
          /\ exit_code' = run_integration(TRUE)
          /\ UNCHANGED idx
       \/ \* the constructor raised: the configuration is missing or invalid
          /\ CanFail
          /\ faults' = faults + 1
          /\ pc' = "Aborted"
          /\ exit_code' = run_integration(TRUE)
          /\ UNCHANGED <<idx, metrics>>
    /\ UNCHANGED <<clientVars, componentVars, outage, soda_content, attribute_store, applied, recorded, datasets, runsLeft, passVars, asset_cache,
                   domain_mappings_cache, catalogVars, dataset_metrics, ops,
                   outcome, passErrors, attempted, writes, deletions, confirmed>>

\* _process_single_dataset up to _verify_dataset_in_collibra
Verify ==
    /\ pc = "Verify"
    /\ attempted' = Append(attempted, idx)
    /\ LET dm == start_dataset_processing(dataset_metrics, Dataset.name) IN
       IF ~Config.soda_no_collibra_dataset_skip_checks
       THEN /\ \E n \in 0..2 : tableAssets' = n
            /\ pc' = StageAfter("Verify")
            /\ ops' = <<>>
            /\ dataset_metrics' = dm
            /\ UNCHANGED <<faults, metrics, outcome, passErrors, idx, domain_id,
                           checks, k, seen_names, assets_to_create,
                           assets_to_update, assigned, recorded>>
       ELSE /\ ops' = <<Op("Verify", "find_asset")>>
            /\ \/ \* exactly one table asset
                  /\ outage # "collibra"
                  /\ tableAssets' = 1
                  /\ pc' = StageAfter("Verify")
                  /\ dataset_metrics' = dm
                  /\ UNCHANGED <<faults, metrics, outcome, passErrors, idx,
                                 domain_id, checks, k, seen_names,
                                 assets_to_create, assets_to_update, assigned,
                                 recorded>>
               \/ \* none or several: the dataset is skipped
                  /\ outage # "collibra"
                  /\ UNCHANGED <<faults, recorded>>
                  /\ Returned([metrics EXCEPT !.datasets_skipped = @ + 1],
                              dm, FALSE)
               \/ \* the search raised: recorded, and the dataset is skipped
                  /\ Fails("collibra")
                  /\ faults' = faults + 1
                  /\ recorded' = Append(recorded, "Error verifying dataset")
                  /\ Returned([add_error(metrics, "Error verifying dataset")
                                  EXCEPT !.datasets_skipped = @ + 1], dm, TRUE)
    /\ UNCHANGED <<clientVars, componentVars, exit_code, outage, soda_content, attribute_store, applied, datasets, runsLeft, asset_cache, domain_mappings_cache,
                   catalogVars, writes, deletions, confirmed>>

\* _get_domain_id
ResolveDomain ==
    /\ pc = "ResolveDomain"
    /\ domain_mappings_cache' = "loaded"
    /\ domain_id' = get_domain_id(Dataset)
    /\ pc' = StageAfter("ResolveDomain")
    /\ UNCHANGED <<clientVars, componentVars, exit_code, outage, soda_content, attribute_store, applied, recorded, datasets, runsLeft, faults, idx, tableAssets, checks, k,
                   seen_names, assets_to_create, assets_to_update, asset_cache,
                   catalogVars, metrics, dataset_metrics, ops, outcome,
                   passErrors, attempted, assigned, writes, deletions,
                   confirmed>>

\* what the source may answer to get_checks for the current dataset
SourceAnswers ==
    IF soda_content = <<>> THEN SourceCheckLists ELSE {soda_content[idx]}

\* _get_dataset_checks, and the "if not checks: return" of the caller
FetchChecks ==
    /\ pc = "FetchChecks"
    /\ ops' = Append(ops, Op("FetchChecks", "get_checks"))
    /\ \/ \E items \in SourceAnswers :
            LET found == FilterChecks(items)
                dm == [dataset_metrics EXCEPT ![Dm].checks_found = Len(found)]
            IN  IF found = <<>>
                THEN /\ Returned(metrics, dm, FALSE)
                     /\ UNCHANGED <<faults, recorded>>
                ELSE /\ checks' = found
                     /\ dataset_metrics' = dm
                     /\ k' = 1
                     /\ seen_names' = {}
                     /\ assets_to_create' = <<>>
                     /\ assets_to_update' = <<>>
                     /\ assigned' = [i \in 1..Len(found) |-> 0]
                     /\ pc' = StageAfter("FetchChecks")
                     /\ UNCHANGED <<faults, idx, tableAssets, domain_id,
                                    metrics, outcome, passErrors, recorded>>
       \/ /\ CanFail
          /\ faults' = faults + 1
          /\ Raised(metrics, dataset_metrics)
    /\ UNCHANGED <<clientVars, componentVars, exit_code, outage, soda_content, attribute_store, applied, datasets, runsLeft, asset_cache, domain_mappings_cache,
                   catalogVars, attempted, writes, deletions, confirmed>>

\* after the last iteration of a per-check loop the pass moves on
LoopNext(stage) ==
    IF k = Len(checks)
    THEN /\ pc' = StageAfter(stage)
         /\ k' = 1
    ELSE /\ pc' = stage
         /\ k' = k + 1

\* the request _prepare_check_assets schedules for a check, given what the
\* two searches returned: "update" (with the asset found) or "create"
Schedule(inDomain, anywhere) ==
    IF inDomain # {} THEN [op |-> "update", among |-> inDomain]
    ELSE IF anywhere # {} THEN [op |-> "update", among |-> anywhere]
    ELSE [op |-> "create", among |-> {}]

\* one iteration of the loop of _prepare_check_assets
DiffAssets ==
    /\ pc = "DiffAssets"
    /\ LET check == checks[k]
           asset_name == PreparedName(Dataset, check, seen_names)
           call1 == CacheKey(asset_name, domain_id) \notin DOMAIN asset_cache
           r1 == FindCheckAsset(asset_cache, catalog, asset_name, domain_id)
           c1 == CacheAfterFind(asset_cache, catalog, asset_name, domain_id)
           second == (r1 = {})
           call2 == second /\ CacheKey(asset_name, "") \notin DOMAIN c1
           r2 == IF second THEN FindCheckAsset(c1, catalog, asset_name, "")
                 ELSE {}
           c2 == IF second THEN CacheAfterFind(c1, catalog, asset_name, "")
                 ELSE c1
           plan == Schedule(r1, r2)
           calls == (IF call1 THEN <<Op("DiffAssets", "find_asset")>> ELSE <<>>)
                    \o (IF call2 THEN <<Op("DiffAssets", "find_asset")>> ELSE <<>>)
       IN
       \/ \* both lookups answered
          /\ outage = "collibra" => ~(call1 \/ call2)
          /\ seen_names' = seen_names \cup {asset_name}
          /\ asset_cache' = c2
          /\ ops' = ops \o calls
          /\ confirmed' = confirmed \cup Ids(IF call1 THEN r1 ELSE {})
                                    \cup Ids(IF call2 THEN r2 ELSE {})
          /\ IF plan.op = "update"
             THEN \E existing_asset \in plan.among :   \* results[0]
                    /\ assets_to_update' = Append(assets_to_update,
                          [id |-> existing_asset.id, name |-> asset_name,
                           domainId |-> domain_id, chk |-> k])
                    /\ assigned' = [assigned EXCEPT ![k] = existing_asset.id]
                    /\ UNCHANGED assets_to_create
             ELSE /\ assets_to_create' = Append(assets_to_create,
                          [name |-> asset_name, domainId |-> domain_id,
                           chk |-> k])
                  /\ UNCHANGED <<assets_to_update, assigned>>
          /\ LoopNext("DiffAssets")
          /\ UNCHANGED <<faults, idx, tableAssets, domain_id, checks, metrics,
                         dataset_metrics, outcome, passErrors, recorded>>
       \/ \* the search in the resolved domain raised
          /\ call1 /\ Fails("collibra")
          /\ faults' = faults + 1
          /\ ops' = Append(ops, Op("DiffAssets", "find_asset"))
          /\ Raised(metrics, dataset_metrics)
          /\ UNCHANGED <<asset_cache, confirmed>>
       \/ \* the search across all domains raised
          /\ call2 /\ CanFail
          /\ faults' = faults + 1
          /\ ops' = ops \o calls
          /\ asset_cache' = c1
          /\ confirmed' = confirmed \cup Ids(IF call1 THEN r1 ELSE {})
          /\ Raised(metrics, dataset_metrics)
    /\ UNCHANGED <<clientVars, componentVars, exit_code, outage, soda_content, attribute_store, applied, datasets, runsLeft, domain_mappings_cache, catalogVars,
                   attempted, writes, deletions>>

\* _execute_asset_operations, first half: change_assets_bulk
ApplyUpdate ==
    /\ pc = "ApplyUpdate"
    /\ IF assets_to_update = <<>>
       THEN /\ pc' = StageAfter("ApplyUpdate")
            /\ UNCHANGED <<faults, idx, passVars, asset_cache, catalogVars,
                           metrics, dataset_metrics, ops, outcome, passErrors,
                           confirmed, applied, recorded>>
       ELSE LET ids == {assets_to_update[i].id : i \in 1..Len(assets_to_update)}
                n == Len(assets_to_update)
            IN
            /\ ops' = Append(ops, Op("ApplyAssetOps", "change_assets_bulk"))
            /\ \/ \* the catalog applies the batch and returns the assets
                  /\ ids \subseteq Ids(catalog)
                  /\ catalog' = change_assets_bulk(catalog, assets_to_update)
                  /\ asset_cache' = UpdateAssetCache(asset_cache,
                                       {a \in catalog' : a.id \in ids})
                  /\ confirmed' = confirmed \cup ids
                  /\ applied' = [applied EXCEPT !.updated = @ + Cardinality(ids)]
                  /\ metrics' = [metrics EXCEPT !.checks_updated = @ + n]
                  /\ dataset_metrics' =
                        [dataset_metrics EXCEPT ![Dm].checks_updated = @ + n]
                  /\ pc' = StageAfter("ApplyUpdate")
                  /\ UNCHANGED <<faults, idx, passVars, nextId, outcome,
                                 passErrors, recorded>>
               \/ \* an asset of the batch is gone: the catalog rejects it
                  /\ ~(ids \subseteq Ids(catalog))
                  /\ Raised(metrics, dataset_metrics)
                  /\ UNCHANGED <<faults, asset_cache, catalogVars, confirmed, applied>>
               \/ \* the call failed
                  /\ CanFail
                  /\ faults' = faults + 1
                  /\ Raised(metrics, dataset_metrics)
                  /\ UNCHANGED <<asset_cache, catalogVars, confirmed, applied>>
    /\ UNCHANGED <<clientVars, componentVars, exit_code, outage, soda_content, attribute_store, datasets, runsLeft, domain_mappings_cache, attempted,
                   writes, deletions>>

\* _execute_asset_operations, second half: add_assets_bulk
ApplyCreate ==
    /\ pc = "ApplyCreate"
    /\ IF assets_to_create = <<>>
       THEN /\ pc' = StageAfter("ApplyCreate")
            /\ UNCHANGED <<faults, idx, passVars, asset_cache, catalogVars,
                           metrics, dataset_metrics, ops, outcome, passErrors,
                           confirmed, applied, recorded>>
       ELSE LET n == Len(assets_to_create)
                created == add_assets_bulk(assets_to_create, nextId, idx)
            IN
            /\ ops' = Append(ops, Op("ApplyAssetOps", "add_assets_bulk"))
            /\ \/ /\ catalog' = catalog \cup created
                  /\ nextId' = nextId + n
                  /\ asset_cache' = UpdateAssetCache(asset_cache, created)
                  /\ confirmed' = confirmed \cup Ids(created)
                  /\ applied' = [applied EXCEPT !.created = @ + Cardinality(created)]
                  /\ assigned' = [i \in 1..Len(assigned) |->
                        IF \E j \in 1..n : assets_to_create[j].chk = i
                        THEN nextId - 1 +
                             (CHOOSE j \in 1..n : assets_to_create[j].chk = i)
                        ELSE assigned[i]]
                  /\ metrics' = [metrics EXCEPT !.checks_created = @ + n]
                  /\ dataset_metrics' =
                        [dataset_metrics EXCEPT ![Dm].checks_created = @ + n]
                  /\ pc' = StageAfter("ApplyCreate")
                  /\ UNCHANGED <<faults, idx, tableAssets, domain_id, checks,
                                 k, seen_names, assets_to_create,
                                 assets_to_update, outcome, passErrors,
                                 recorded>>
               \/ /\ CanFail
                  /\ faults' = faults + 1
                  /\ Raised(metrics, dataset_metrics)
                  /\ UNCHANGED <<asset_cache, catalogVars, confirmed, applied>>
    /\ UNCHANGED <<clientVars, componentVars, exit_code, outage, soda_content, attribute_store, datasets, runsLeft, domain_mappings_cache, attempted,
                   writes, deletions>>

Write(asset_id, kind) == [asset |-> asset_id, ds |-> idx, chk |-> k, kind |-> kind]

\* _get_check_asset_id: the asset ids a check's writes may go to, given the
\* result of the lookup (none when the lookup found nothing)
CheckAssetIds(result) == Ids(result)

\* "Failed to process check": the except branch of
\* _process_check_attributes_and_relations
CheckFailed ==
    /\ metrics' = add_error(metrics, "Failed to process check")
    /\ recorded' = Append(recorded, "Failed to process check")
    /\ dataset_metrics' = [dataset_metrics EXCEPT
                              ![Dm] = add_error(@, "Failed to process check")]
    /\ passErrors' = [passErrors EXCEPT ![idx] = TRUE]

\* the types of attribute_definitions in _process_check_attributes: the three
\* standard attributes every check gets
AttributeTypes == {"check_evaluation_status", "check_last_sync_date",
                   "check_cloud_url"}

\* find_attributes: existing_attribute_map of an asset
find_attributes(asset_id) ==
    { a.type : a \in { x \in attribute_store : x.asset = asset_id } }

\* _sort_attributes: the types routed to attributes_to_create
attributes_to_create(asset_id) == AttributeTypes \ find_attributes(asset_id)

\* _execute_attribute_operations went through: the attributes to create are
\* in the catalog and are counted
AttributesWritten(asset_id) ==
    /\ attribute_store' = attribute_store \cup
           { [asset |-> asset_id, type |-> t] : t \in attributes_to_create(asset_id) }
    /\ applied' = [applied EXCEPT !.attributes =
                      @ + Cardinality(attributes_to_create(asset_id))]

\* one iteration of the loop of _process_check_attributes_and_relations
SyncAttributesAndRelations ==
    /\ pc = "SyncAttributesAndRelations"
    /\ LET check == checks[k]
           asset_name == LookupName(Dataset, check)
           dom == get_domain_id(Dataset)
           call == CacheKey(asset_name, dom) \notin DOMAIN asset_cache
           result == FindCheckAsset(asset_cache, catalog, asset_name, dom)
           cache == CacheAfterFind(asset_cache, catalog, asset_name, dom)
           lookup == IF call
                     THEN <<Op("SyncAttributesAndRelations", "find_asset")>>
                     ELSE <<>>
           attrOps == <<Op("SyncAttributesAndRelations", "find_attributes"),
                        Op("SyncAttributesAndRelations", "attributes_bulk")>>
           tableOp == <<Op("SyncAttributesAndRelations", "find_asset")>>
           relOp == <<Op("SyncAttributesAndRelations", "set_relations")>>
       IN
       \/ \* the lookup raised
          /\ call /\ CanFail
          /\ faults' = faults + 1
          /\ ops' = ops \o lookup
          /\ CheckFailed
          /\ UNCHANGED <<asset_cache, confirmed, writes, attribute_store, applied>>
       \/ \* no asset: recorded in the overall errors, nothing is written
          /\ CheckAssetIds(result) = {}
          /\ asset_cache' = cache
          /\ ops' = ops \o lookup
          /\ metrics' = add_error(metrics, "No Collibra asset found for check")
          /\ recorded' = Append(recorded, "No Collibra asset found for check")
          /\ passErrors' = [passErrors EXCEPT ![idx] = TRUE]
          /\ UNCHANGED <<faults, dataset_metrics, confirmed, writes,
                         attribute_store, applied>>
       \/ \E collibra_asset_id \in CheckAssetIds(result) :     \* results[0].id
          /\ asset_cache' = cache
          /\ confirmed' = confirmed \cup Ids(IF call THEN result ELSE {})
          /\ \/ \* attributes and the table/column relation are written
                /\ collibra_asset_id \in Ids(catalog)
                /\ AttributesWritten(collibra_asset_id)
                /\ IF tableAssets = 1
                   THEN /\ writes' = writes \cup {Write(collibra_asset_id, "attr"),
                                                  Write(collibra_asset_id, "rel")}
                        /\ ops' = ops \o lookup \o attrOps \o tableOp \o relOp
                        /\ UNCHANGED <<metrics, passErrors, recorded>>
                   ELSE /\ writes' = writes \cup {Write(collibra_asset_id, "attr")}
                        /\ ops' = ops \o lookup \o attrOps \o tableOp
                        /\ metrics' = add_error(metrics, "No table asset found")
                        /\ recorded' = Append(recorded, "No table asset found")
                        /\ passErrors' = [passErrors EXCEPT ![idx] = TRUE]
                /\ UNCHANGED <<faults, dataset_metrics>>
             \/ \* the cached asset is gone from the catalog: the write fails
                /\ collibra_asset_id \notin Ids(catalog)
                /\ writes' = writes \cup {Write(collibra_asset_id, "attr")}
                /\ ops' = ops \o lookup \o attrOps
                /\ CheckFailed
                /\ UNCHANGED <<faults, attribute_store, applied>>
             \/ \* an attribute call failed
                /\ CanFail
                /\ faults' = faults + 1
                /\ UNCHANGED <<attribute_store, applied>>
                /\ writes' = writes \cup {Write(collibra_asset_id, "attr")}
                /\ ops' = ops \o lookup \o attrOps
                /\ CheckFailed
             \/ \* a relation call failed after the attributes were written
                /\ CanFail
                /\ collibra_asset_id \in Ids(catalog)
                /\ AttributesWritten(collibra_asset_id)
                /\ faults' = faults + 1
                /\ writes' = writes \cup {Write(collibra_asset_id, "attr")}
                /\ ops' = ops \o lookup \o attrOps \o tableOp
                /\ CheckFailed
    /\ LoopNext("SyncAttributesAndRelations")
    /\ domain_mappings_cache' = "loaded"
    /\ UNCHANGED <<clientVars, componentVars, exit_code, outage, soda_content, datasets, runsLeft, idx, tableAssets, domain_id, checks,
                   seen_names, assets_to_create, assets_to_update, catalogVars,
                   outcome, attempted, assigned, deletions>>

\* _sync_check_deletions
SyncDeletions ==
    /\ pc = "SyncDeletions"
    /\ LET found == find_asset(catalog, DeletionPattern(Dataset), domain_id, "END")
           soda_asset_names == DesiredNames(Dataset, checks)
           assets_to_delete == AssetsToDelete(found, soda_asset_names)
           search == Op("SyncDeletions", "find_asset")
           delete == Op("SyncDeletions", "delete_bulk_assets")
           call(ok) == [ds |-> idx, ids |-> assets_to_delete, found |-> found,
                        desired |-> soda_asset_names, ok |-> ok]
       IN
       \/ \* the search raised
          /\ CanFail
          /\ faults' = faults + 1
          /\ ops' = Append(ops, search)
          /\ Raised(metrics, dataset_metrics)
          /\ UNCHANGED <<catalog, deletions, attribute_store>>
       \/ \* nothing found, or nothing to delete
          /\ assets_to_delete = {}
          /\ ops' = Append(ops, search)
          /\ pc' = StageAfter("SyncDeletions")
          /\ UNCHANGED <<faults, idx, passVars, catalog, metrics,
                         dataset_metrics, outcome, passErrors, deletions,
                         recorded, attribute_store>>
       \/ \* one bulk delete
          /\ assets_to_delete # {}
          /\ ops' = ops \o <<search, delete>>
          /\ catalog' = delete_bulk_assets(catalog, assets_to_delete)
          /\ attribute_store' = { a \in attribute_store :
                                    a.asset \notin assets_to_delete }
          /\ deletions' = Append(deletions, call(TRUE))
          /\ dataset_metrics' = [dataset_metrics EXCEPT
                ![Dm].checks_deleted = Cardinality(assets_to_delete)]
          /\ pc' = StageAfter("SyncDeletions")
          /\ UNCHANGED <<faults, idx, passVars, metrics, outcome, passErrors,
                         recorded>>
       \/ \* the bulk delete raised
          /\ assets_to_delete # {}
          /\ CanFail
          /\ faults' = faults + 1
          /\ ops' = ops \o <<search, delete>>
          /\ deletions' = Append(deletions, call(FALSE))
          /\ Raised(metrics, [dataset_metrics EXCEPT
                ![Dm] = add_error(@, "Failed to delete checks")])
          /\ UNCHANGED <<catalog, attribute_store>>
    /\ UNCHANGED <<clientVars, componentVars, exit_code, outage, soda_content, applied, datasets, runsLeft, asset_cache, domain_mappings_cache,
                   nextId, attempted, writes, confirmed>>

\* dataset_metrics.add_error for each error of a list
RECURSIVE add_errors(_, _)
add_errors(m, errors) ==
    IF errors = <<>> THEN m ELSE add_errors(add_error(m, Head(errors)), Tail(errors))

\* _synchronize_dataset_ownership inside the try of _process_single_dataset,
\* then finish_dataset_processing and the return
SyncOwnership ==
    /\ pc = "SyncOwnership"
    /\ LET table == Op("SyncOwnership", "find_asset")
           resp == Op("SyncOwnership", "get_responsibilities")
           users == Op("SyncOwnership", "find_user")
           push == Op("SyncOwnership", "update_dataset")
           done(errors, owners) ==
               /\ Returned(metrics,
                           [dataset_metrics EXCEPT
                               ![Dm] = [add_errors(@, errors)
                                           EXCEPT !.owners_synced = owners]],
                           errors # <<>>)
               /\ recorded' = recorded \o errors
       IN
       \/ \* no unique table asset
          /\ tableAssets # 1
          /\ ops' = Append(ops, table)
          /\ done(<<"No Collibra asset found for ownership sync">>, 0)
          /\ UNCHANGED faults
       \/ \* the table search raised: caught, treated as not found
          /\ CanFail
          /\ faults' = faults + 1
          /\ ops' = Append(ops, table)
          /\ done(<<"No Collibra asset found for ownership sync">>, 0)
       \/ \* fetching the responsibilities raised
          /\ tableAssets = 1 /\ CanFail
          /\ faults' = faults + 1
          /\ ops' = ops \o <<table, resp>>
          /\ done(<<"Ownership sync failed">>, 0)
       \/ \* the asset has no owner
          /\ tableAssets = 1
          /\ ops' = ops \o <<table, resp>>
          /\ done(<<>>, 0)
          /\ UNCHANGED faults
       \/ \* owners resolved: matched source users, unmatched emails
          /\ tableAssets = 1
          /\ \E matched \in 0..1, missing \in 0..1 :
               /\ matched + missing > 0
               /\ LET unmatched == IF missing > 0
                                   THEN <<"No Soda user found with email">>
                                   ELSE <<>>
                  IN
                  \/ /\ matched = 0
                     /\ ops' = ops \o <<table, resp, users>>
                     /\ done(unmatched \o <<"No matching Soda users found">>, 0)
                     /\ UNCHANGED faults
                  \/ /\ matched > 0
                     /\ ops' = ops \o <<table, resp, users, push>>
                     /\ done(unmatched, matched)
                     /\ UNCHANGED faults
                  \/ /\ matched > 0 /\ CanFail
                     /\ faults' = faults + 1
                     /\ ops' = ops \o <<table, resp, users, push>>
                     /\ done(unmatched \o
                             <<"Failed to update Soda dataset ownership",
                               "Ownership sync failed">>, 0)
    /\ UNCHANGED <<clientVars, componentVars, exit_code, outage, soda_content, attribute_store, applied, datasets, runsLeft, asset_cache, domain_mappings_cache,
                   catalogVars, attempted, writes, deletions, confirmed>>

\* metrics.finish_processing() at the end of run()
Aggregate ==
    /\ pc = "Aggregate"
    /\ metrics' = aggregate_dataset_metrics(metrics, dataset_metrics)
    /\ pc' = "Finished"
    /\ exit_code' = run_integration(FALSE)
    /\ UNCHANGED <<clientVars, componentVars, outage, soda_content, attribute_store, applied, recorded, datasets, runsLeft, faults, idx, passVars, asset_cache,
                   domain_mappings_cache, catalogVars, dataset_metrics, ops,
                   outcome, passErrors, attempted, writes, deletions, confirmed>>

\* the engine is started again, later, on the same catalog: a new instance
NextRun ==
    /\ pc \in {"Finished", "Aborted"}
    /\ runsLeft > 0
    /\ runsLeft' = runsLeft - 1
    /\ faults' = 0
    /\ pc' = "Start"
    /\ idx' = 0
    /\ asset_cache' = <<>>
    /\ domain_mappings_cache' = "unset"
    /\ metrics' = ZeroMetrics
    /\ dataset_metrics' = <<>>
    /\ ops' = <<>>
    /\ outcome' = NoOutcome
    /\ passErrors' = NoErrors
    /\ attempted' = <<>>
    /\ writes' = {}
    /\ deletions' = <<>>
    /\ confirmed' = {}
    /\ applied' = [created |-> 0, updated |-> 0, attributes |-> 0]
    /\ recorded' = <<>>
    /\ exit_code' = -1
    /\ UNCHANGED <<clientVars, componentVars, outage, soda_content, attribute_store, datasets, passVars, catalogVars>>

Next ==
    \/ StartRun
    \/ Verify
    \/ ResolveDomain
    \/ FetchChecks
    \/ DiffAssets
    \/ ApplyUpdate
    \/ ApplyCreate
    \/ SyncAttributesAndRelations
    \/ SyncDeletions
    \/ SyncOwnership
    \/ Aggregate

\* no external call is being followed through the retry layer
CallIdle ==
    /\ wrapper = "none"
    /\ func = "none"
    /\ cpc = "Idle"
    /\ attempt_number = 0
    /\ is_retry = FALSE
    /\ depth = 0
    /\ sent = <<>>
    /\ sleeps = <<>>
    /\ call_metrics = [api_calls_made |-> 0, api_calls_failed |-> 0]
    /\ raised = [exc |-> "none", status |-> 0]

\* no attribute bulk call is being followed
AttributesIdle ==
    /\ known_types = {}
    /\ attributes = <<>>
    /\ attr_method = "none"
    /\ apc = "Idle"
    /\ attr_result = <<>>
    /\ stored = <<>>
    /\ attr_requests = <<>>
    /\ attribute_metrics = [attributes_created |-> 0, table_relations_created |-> 0]
    /\ relation_store = <<>>

\* no ownership synchronisation is being followed
OwnershipIdle ==
    /\ collibra_owners = <<>>
    /\ opc = "Idle"
    /\ oi = 0
    /\ soda_user_ids = <<>>
    /\ missing_emails = <<>>
    /\ owner_pushes = <<>>
    /\ owner_errors = <<>>
    /\ owner_faults = 0

\* generate_asset_name has not been called
NamesIdle ==
    /\ used_names = {}
    /\ generated = <<>>

\* no attribute definitions are being built
DefinitionsIdle ==
    /\ soda_check = "none"
    /\ dpc = "Idle"
    /\ attribute_definitions = <<>>

\* run_complete_pipeline has not been called
PipelineIdle ==
    /\ strict = FALSE
    /\ layer_index = 0
    /\ results = <<>>
    /\ sync_calls = <<>>
    /\ pipeline_status = "none"
    /\ gpc = "Idle"

\* no connection pool has been made
PoolIdle ==
    /\ pool_queue = <<>>
    /\ pool_created = 0
    /\ pool_active = 0
    /\ pool_lock = 0
    /\ threads = <<>>
    /\ live = {}
    /\ next_conn = 1
    /\ pool_ops = 0

\* wait_for_job_completion has not been called
NoResult == [exc |-> "", status |-> ""]

WaitIdle ==
    /\ wpc = "Idle"
    /\ elapsed_time = 0
    /\ consecutive_errors = 0
    /\ job_result = NoResult
    /\ reported = <<>>

FunctionsIdle == NamesIdle /\ DefinitionsIdle /\ PipelineIdle /\ PoolIdle /\ WaitIdle

ComponentsIdle ==
    /\ CallIdle
    /\ AttributesIdle
    /\ OwnershipIdle
    /\ FunctionsIdle

\* no list call of the client is being followed
ClientIdle ==
    /\ source = <<>>
    /\ request_url = None
    /\ ppc = "Idle"
    /\ page = 0
    /\ size = 0
    /\ total_pages = 0
    /\ base_url = None
    /\ all_items = <<>>
    /\ requested = <<>>

\* one run over the datasets of the source
Init ==
    /\ datasets \in [1..NumDatasets -> DatasetPool]
    /\ runsLeft = 0
    /\ InitEngine
    /\ ClientIdle
    /\ ComponentsIdle

Spec == Init /\ [][Next]_vars

\* one run during which the source or the catalog may be unreachable
InitOutage ==
    /\ datasets \in [1..NumDatasets -> DatasetPool]
    /\ runsLeft = 0
    /\ InitRun
    /\ soda_content = <<>>
    /\ outage \in {"none", "soda", "collibra"}
    /\ ClientIdle
    /\ ComponentsIdle

SpecOutage == InitOutage /\ [][Next]_vars

\* repeated runs over one dataset whose checks change between the runs
InitRerun ==
    /\ datasets \in [1..1 -> DatasetPool]
    /\ runsLeft = MaxRuns - 1
    /\ InitEngine
    /\ ClientIdle
    /\ ComponentsIdle

NextRerun ==
    \/ Next
    \/ NextRun

SpecRerun == InitRerun /\ [][NextRerun]_vars

\* the run ended without an error and without a skipped or failed dataset
RunSucceeded ==
    /\ pc = "Finished"
    /\ recorded = <<>>
    /\ metrics.errors = <<>>
    /\ metrics.datasets_skipped = 0
    /\ metrics.datasets_failed = 0

\* the engine is run again after a run that succeeded
RunAgain ==
    /\ RunSucceeded
    /\ NextRun

\* runs over a source whose content does not change
InitUnchangedSource ==
    /\ datasets \in [1..NumDatasets -> DatasetPool]
    /\ runsLeft = MaxRuns - 1
    /\ InitRun
    /\ outage = "none"
    /\ soda_content \in [1..NumDatasets -> SeqsUpTo(CheckPool, MaxChecks)]
    /\ ClientIdle
    /\ ComponentsIdle

NextUnchangedSource ==
    \/ Next
    \/ RunAgain

SpecUnchangedSource == InitUnchangedSource /\ [][NextUnchangedSource]_vars

(***************************************************************************)
(* The source's client (clients/soda_client.py): one paginated list call   *)
(***************************************************************************)
\* page_size=50, the default of _handle_pagination
DefaultPageSize == 50

\* the value of a query parameter of a url, None when the url has none
Param(url, key) ==
    LET parts == Split(url, "?")
        pairs == IF Len(parts) > 1 THEN Split(parts[2], "&") ELSE <<>>
        hits  == { i \in 1..Len(pairs) : Split(pairs[i], "=")[1] = key }
    IN  IF hits = {} THEN None
        ELSE Split(pairs[CHOOSE i \in hits : \A j \in hits : i <= j], "=")[2]

\* the url get_checks builds
get_checks(dataset_id) ==
    IF dataset_id # None
    THEN <<"c", "h", "e", "c", "k", "s">> \o <<"?">> \o <<"d", "a", "t", "a", "s", "e", "t", "I", "d">> \o <<"=">> \o dataset_id
         \o <<"&">> \o <<"p", "a", "g", "e">> \o <<"=", "0", "&">> \o <<"s", "i", "z", "e">> \o <<"=">> \o ToStr(PageSize)
    ELSE <<"c", "h", "e", "c", "k", "s">> \o <<"?">> \o <<"p", "a", "g", "e">> \o <<"=", "0", "&">> \o <<"s", "i", "z", "e">> \o <<"=">> \o ToStr(PageSize)

\* the url _handle_pagination builds for a further page
PageUrl(base, p, sz) ==
    base \o <<"?">> \o <<"p", "a", "g", "e">> \o <<"=">> \o ToStr(p) \o <<"&">> \o <<"s", "i", "z", "e">> \o <<"=">> \o ToStr(sz)

\* the size _handle_pagination reads from the url of the first request
SizeOf(url) ==
    IF Param(url, <<"s", "i", "z", "e">>) # None THEN ParseNat(Param(url, <<"s", "i", "z", "e">>))
    ELSE DefaultPageSize

\* the records of the source a url's filter selects, in the source's order
RECURSIVE MatchingFrom(_, _, _)
MatchingFrom(src, filter, i) ==
    IF i > Len(src) THEN <<>>
    ELSE (IF filter = None \/ src[i] = filter
          THEN <<[id |-> i, datasetId |-> src[i]]>> ELSE <<>>)
         \o MatchingFrom(src, filter, i + 1)
Matching(src, url) == MatchingFrom(src, Param(url, <<"d", "a", "t", "a", "s", "e", "t", "I", "d">>), 1)

Min(a, b) == IF a < b THEN a ELSE b

\* what the source answers to GET url: one page of the selected records
Response(src, url) ==
    LET records == Matching(src, url)
        p  == IF Param(url, <<"p", "a", "g", "e">>) # None THEN ParseNat(Param(url, <<"p", "a", "g", "e">>)) ELSE 0
        sz == IF Param(url, <<"s", "i", "z", "e">>) # None THEN ParseNat(Param(url, <<"s", "i", "z", "e">>)) ELSE 10
    IN  [ content |-> SubSeq(records, p * sz + 1, Min((p + 1) * sz, Len(records))),
          totalPages |-> (Len(records) + sz - 1) \div sz,
          totalElements |-> Len(records),
          _request_url |-> url ]

\* the engine's variables while only the client is followed
EngineIdle ==
    UNCHANGED <<datasets, runsLeft, pc, idx, passVars, asset_cache,
                domain_mappings_cache, catalogVars, metrics, dataset_metrics,
                ops, outcome, passErrors, attempted, writes, deletions,
                confirmed, applied, recorded, exit_code, outage, soda_content,
                attribute_store, componentVars>>

\* execute_request for the first page, and the head of _handle_pagination
ExecuteRequest ==
    /\ ppc = "Idle"
    /\ requested' = Append(requested, request_url)
    /\ \/ \* a paginated answer: _handle_pagination starts
          LET response == Response(source, request_url) IN
          /\ size' = SizeOf(response._request_url)
          /\ total_pages' = response.totalPages
          /\ base_url' = Split(response._request_url, "?")[1]
          /\ all_items' = response.content
          /\ page' = 0
          /\ ppc' = "Paging"
          /\ UNCHANGED faults
       \/ \* raise_for_status raised
          /\ CanFail
          /\ faults' = faults + 1
          /\ ppc' = "Raised"
          /\ UNCHANGED <<page, size, total_pages, base_url, all_items>>
       \/ \* 204 or an empty body: execute_request returns None
          /\ CanFail
          /\ faults' = faults + 1
          /\ ppc' = "ReturnedNone"
          /\ UNCHANGED <<page, size, total_pages, base_url, all_items>>
    /\ UNCHANGED <<source, request_url>>
    /\ EngineIdle

\* one iteration of the while loop of _handle_pagination
NextPage ==
    /\ ppc = "Paging"
    /\ page < total_pages - 1
    /\ page' = page + 1
    /\ LET url == PageUrl(base_url, page + 1, size)
           next_page == Response(source, url)
       IN
       /\ requested' = Append(requested, url)
       /\ \/ /\ all_items' = all_items \o next_page.content
             /\ ppc' = "Paging"
             /\ UNCHANGED faults
          \/ \* the page came back empty or without "content": break
             /\ CanFail
             /\ faults' = faults + 1
             /\ ppc' = "Returned"
             /\ UNCHANGED all_items
          \/ \* raise_for_status raised
             /\ CanFail
             /\ faults' = faults + 1
             /\ ppc' = "Raised"
             /\ UNCHANGED all_items
    /\ UNCHANGED <<source, request_url, size, total_pages, base_url>>
    /\ EngineIdle

\* the while loop of _handle_pagination ends: return all_items
ReturnItems ==
    /\ ppc = "Paging"
    /\ ~(page < total_pages - 1)
    /\ ppc' = "Returned"
    /\ UNCHANGED <<faults, source, request_url, page, size, total_pages, base_url,
                   all_items, requested>>
    /\ EngineIdle

\* the list calls followed: all checks, or the checks of one dataset
DatasetIds == {<<"1">>, <<"2">>}

InitClient ==
    /\ source \in SeqsUpTo(DatasetIds, MaxRecords)
    /\ request_url \in {get_checks(None)} \cup {get_checks(d) : d \in DatasetIds}
    /\ ppc = "Idle"
    /\ page = 0
    /\ size = 0
    /\ total_pages = 0
    /\ base_url = None
    /\ all_items = <<>>
    /\ requested = <<>>
    /\ datasets = <<>>
    /\ runsLeft = 0
    /\ InitEngine
    /\ ComponentsIdle

NextClient ==
    \/ ExecuteRequest
    \/ NextPage
    \/ ReturnItems

SpecClient == InitClient /\ [][NextClient]_vars

(***************************************************************************)
(* One external call through the retry layer (utils.py safe_api_call,      *)
(* src/core/retry.py retry_with_backoff) and the client function it wraps  *)
(***************************************************************************)
\* IntegrationConstants
MAX_RETRIES == 3
RETRY_DELAY_MIN == 4
RETRY_DELAY_MAX == 10

\* RetryConfig(max_attempts=3, initial_delay=5.0) of _make_request
max_attempts == 3
initial_delay == 5
max_delay == 60
exponential_base == 2

\* sleeps are kept in hundredths of a second
Seconds(n) == n * 100

RECURSIVE Pow(_, _)
Pow(b, e) == IF e = 0 THEN 1 ELSE b * Pow(b, e - 1)

Max(a, b) == IF a > b THEN a ELSE b

\* what the backend can answer to one request: a response with a status, or
\* no response at all (the request raised Timeout or ConnectionError)
Answer(error, status, signin) == [error |-> error, status |-> status, signin |-> signin]
Answers ==
    { Answer("", st, FALSE) : st \in {200, 204, 302, 401, 403, 404, 429, 500} }
    \cup { Answer("", 302, TRUE) }
    \cup { Answer(e, 0, FALSE) : e \in {"Timeout", "ConnectionError"} }

\* the answers to a request whose redirects the requests library follows itself
FinalAnswers == { a \in Answers : a.status \notin {301, 302, 303, 307, 308} }

\* requests.Response.ok, which is also the truth value of a Response
Ok(answer) == answer.status < 400

\* the status codes the clients follow as redirects
IsRedirect(answer) == answer.status \in {301, 302, 303, 307, 308}

\* the outcome of one run of a client function
Return == [kind |-> "return", exc |-> "none", status |-> 0, sleep |-> 0]
Raise(exc, status) == [kind |-> "raise", exc |-> exc, status |-> status, sleep |-> 0]
Recurse(seconds) == [kind |-> "recurse", exc |-> "none", status |-> 0, sleep |-> seconds]

\* CollibraClient.execute_request after the last response arrived
CollibraAfterResponse(response, retry) ==
    IF response.error # "" THEN Raise(response.error, 0)
    ELSE IF response.status >= 400 THEN Raise("HTTPError", response.status)
    ELSE IF response.status = 204 THEN Raise("JSONDecodeError", response.status)
    ELSE IF response.status = 401 /\ ~retry THEN Raise("RuntimeError", 401)
    ELSE IF response.status = 429 THEN Recurse(10)
    ELSE IF ~Ok(response) THEN Raise("AssertionError", response.status)
    ELSE Return

\* CollibraClient.execute_request: first is the answer to the request, second
\* the answer to the request sent to the redirect target, if one is sent
CollibraExecute(first, second, retry) ==
    IF first.error # "" THEN Raise(first.error, 0)
    ELSE IF IsRedirect(first)
         THEN IF first.signin THEN Raise("HTTPError", 401)
              ELSE CollibraAfterResponse(second, retry)
    ELSE CollibraAfterResponse(first, retry)

\* whether CollibraClient.execute_request sends the second request
CollibraFollows(first) == first.error = "" /\ IsRedirect(first) /\ ~first.signin

\* CollibraClient.delete_bulk_assets after the redirect handling
DeleteAfterRedirect(response) ==
    IF response.error # "" THEN Raise(response.error, 0)
    ELSE IF response.status = 401 THEN Raise("RuntimeError", 401)
    ELSE IF response.status = 429 THEN Recurse(10)
    ELSE IF Ok(response) THEN Return
    ELSE Raise("HTTPError", response.status)

\* CollibraClient.delete_bulk_assets without the 404 check after a redirect
DeleteExecuteNoRecheck(first, second) ==
    IF first.error # "" THEN Raise(first.error, 0)
    ELSE IF first.status = 404 THEN Return
    ELSE IF IsRedirect(first) THEN DeleteAfterRedirect(second)
    ELSE DeleteAfterRedirect(first)

\* CollibraClient.delete_bulk_assets
DeleteExecute(first, second) ==
    IF first.error # "" THEN Raise(first.error, 0)
    ELSE IF first.status = 404 THEN Return
    ELSE IF IsRedirect(first)
         THEN IF second.error = "" /\ second.status = 404 THEN Return
              ELSE DeleteAfterRedirect(second)
    ELSE DeleteAfterRedirect(first)

\* whether delete_bulk_assets sends the second request
DeleteFollows(first) == first.error = "" /\ IsRedirect(first)

\* SodaClient.execute_request for a request that is not a list call
SodaExecute(response, retry) ==
    IF response.error # "" THEN Raise(response.error, 0)
    ELSE IF response.status >= 400 THEN Raise("HTTPError", response.status)
    ELSE IF response.status = 204 THEN Return
    ELSE IF response.status = 401 /\ ~retry THEN Raise("RuntimeError", 401)
    ELSE IF response.status = 429 THEN Recurse(IF ~retry THEN 15 ELSE 30)
    ELSE IF ~Ok(response) THEN Raise("AssertionError", response.status)
    ELSE Return

\* SodaRepository._make_request (src/repositories/soda_repository.py)
MakeRequestExecute(response) ==
    IF response.error # "" THEN Raise("RetryableError", 0)
    ELSE IF response.status >= 400
         THEN \* e.response.status_code if e.response else None (None as 0)
              LET status_code == IF Ok(response) THEN response.status ELSE 0
              IN  IF status_code = 401 THEN Raise("NonRetryableError", status_code)
                  ELSE IF status_code = 403 THEN Raise("NonRetryableError", status_code)
                  ELSE IF status_code = 429 THEN Raise("RetryableError", status_code)
                  ELSE IF status_code >= 500 /\ status_code < 600
                       THEN Raise("RetryableError", status_code)
                  ELSE Raise("NonRetryableError", status_code)
    ELSE Return

\* no exception
NoException == [exc |-> "none", status |-> 0]

\* tenacity's wait_exponential(multiplier=1, min=4, max=10), in seconds
wait_exponential(attempt) ==
    Max(RETRY_DELAY_MIN, Min(1 * Pow(2, attempt - 1), RETRY_DELAY_MAX))

\* random.random() of calculate_delay, in hundredths
Jitter == {0, 50, 99}

\* RetryConfig.calculate_delay(attempt), attempt counted from 0
calculate_delay(attempt, random) ==
    LET delay == Min(Seconds(initial_delay) * Pow(exponential_base, attempt),
                     Seconds(max_delay))
    IN  delay + (delay * 20 * random) \div 10000

\* config.retryable_exceptions of RetryConfig
retryable_exceptions == {"RetryableError", "ConnectionError", "TimeoutError"}

\* whether the retry layer runs the wrapped function again after exc
ShouldRetry(layer, attempt, exc) ==
    IF layer = "safe_api_call" THEN attempt < MAX_RETRIES
    ELSE exc \in retryable_exceptions /\ attempt - 1 < max_attempts - 1

\* the retry layer calls the wrapped function: func(*args, **kwargs)
Invoke ==
    /\ cpc = "Invoke"
    /\ attempt_number' = attempt_number + 1
    /\ is_retry' = FALSE
    /\ depth' = 0
    /\ cpc' = "Running"
    /\ raised' = NoException
    /\ UNCHANGED <<wrapper, func, sent, sleeps, call_metrics>>
    /\ UNCHANGED <<engineVars, clientVars, attrVars, ownerVars, functionVars>>

\* ProcessingMetrics.increment_api_call
increment_api_call(m, success) ==
    [api_calls_made |-> m.api_calls_made + 1,
     api_calls_failed |-> m.api_calls_failed + (IF success THEN 0 ELSE 1)]

\* "if self.metrics: self.metrics.increment_api_call(response.ok)" after a
\* request: a request that raised has no response and is not counted
TrackApiCall(m, answer) ==
    IF answer.error # "" THEN m ELSE increment_api_call(m, Ok(answer))

Request(to, answer) ==
    [attempt |-> attempt_number, to |-> to, is_retry |-> is_retry,
     depth |-> depth, answer |-> answer]

Sleep(by, seconds) == [by |-> by, attempt |-> attempt_number, seconds |-> seconds]

\* the run of the client function ends, or it calls itself again
Finish(result, flag) ==
    /\ \/ /\ result.kind = "return"
          /\ cpc' = "Returned"
          /\ raised' = NoException
          /\ UNCHANGED <<is_retry, depth, sleeps>>
       \/ /\ result.kind = "raise"
          /\ cpc' = "Failed"
          /\ raised' = [exc |-> result.exc, status |-> result.status]
          /\ UNCHANGED <<is_retry, depth, sleeps>>
       \/ /\ result.kind = "recurse"
          /\ cpc' = "Running"
          /\ sleeps' = Append(sleeps, Sleep("client", Seconds(result.sleep)))
          /\ is_retry' = flag
          /\ depth' = depth + 1
          /\ UNCHANGED raised
    /\ UNCHANGED <<wrapper, func, attempt_number>>
    /\ UNCHANGED <<engineVars, clientVars, attrVars, ownerVars, functionVars>>

\* CollibraClient.execute_request
CollibraExecuteRequest ==
    /\ cpc = "Running" /\ func = "execute_request"
    /\ depth < MaxDepth
    /\ \E first \in Answers, second \in FinalAnswers :
         /\ sent' = IF CollibraFollows(first)
                    THEN sent \o <<Request("api", first), Request("redirect", second)>>
                    ELSE Append(sent, Request("api", first))
         /\ call_metrics' = IF CollibraFollows(first)
                            THEN TrackApiCall(TrackApiCall(call_metrics, first), second)
                            ELSE TrackApiCall(call_metrics, first)
         /\ Finish(CollibraExecute(first, second, is_retry), TRUE)

\* CollibraClient.delete_bulk_assets
DeleteBulkAssets ==
    /\ cpc = "Running" /\ func = "delete_bulk_assets"
    /\ depth < MaxDepth
    /\ \E first \in Answers, second \in FinalAnswers :
         /\ sent' = IF DeleteFollows(first)
                    THEN sent \o <<Request("api", first), Request("redirect", second)>>
                    ELSE Append(sent, Request("api", first))
         /\ call_metrics' = IF DeleteFollows(first)
                            THEN TrackApiCall(TrackApiCall(call_metrics, first), second)
                            ELSE TrackApiCall(call_metrics, first)
         /\ Finish(DeleteExecute(first, second), is_retry)

\* SodaClient.execute_request
SodaExecuteRequest ==
    /\ cpc = "Running" /\ func = "soda_execute_request"
    /\ depth < MaxDepth
    /\ \E response \in FinalAnswers :
         /\ sent' = Append(sent, Request("api", response))
         /\ call_metrics' = TrackApiCall(call_metrics, response)
         /\ Finish(SodaExecute(response, is_retry), TRUE)

\* SodaRepository._make_request
MakeRequest ==
    /\ cpc = "Running" /\ func = "_make_request"
    /\ \E response \in FinalAnswers :
         /\ sent' = Append(sent, Request("api", response))
         /\ UNCHANGED call_metrics
         /\ Finish(MakeRequestExecute(response), is_retry)

\* the retry layer sleeps before the next attempt
RetryWait ==
    /\ cpc = "Failed"
    /\ ShouldRetry(wrapper, attempt_number, raised.exc)
    /\ \E random \in Jitter :
         sleeps' = Append(sleeps,
                     Sleep("retry",
                           IF wrapper = "safe_api_call"
                           THEN Seconds(wait_exponential(attempt_number))
                           ELSE calculate_delay(attempt_number - 1, random)))
    /\ cpc' = "Invoke"
    /\ UNCHANGED <<wrapper, func, attempt_number, is_retry, depth, sent, raised,
                   call_metrics>>
    /\ UNCHANGED <<engineVars, clientVars, attrVars, ownerVars, functionVars>>

\* the retry layer gives up: the failure reaches the caller
Surface ==
    /\ cpc = "Failed"
    /\ ~ShouldRetry(wrapper, attempt_number, raised.exc)
    /\ cpc' = "Surfaced"
    /\ raised' = IF wrapper = "safe_api_call"
                 THEN [raised EXCEPT !.exc = "RetryError"]
                 ELSE raised
    /\ UNCHANGED <<wrapper, func, attempt_number, is_retry, depth, sent, sleeps,
                   call_metrics>>
    /\ UNCHANGED <<engineVars, clientVars, attrVars, ownerVars, functionVars>>

\* the wrapped calls of the integration, and _make_request of the repository
WrappedCalls ==
    { <<"safe_api_call", f>> :
        f \in {"execute_request", "delete_bulk_assets", "soda_execute_request"} }
    \cup { <<"retry_with_backoff", "_make_request">> }

InitCall ==
    /\ \E call \in WrappedCalls : wrapper = call[1] /\ func = call[2]
    /\ cpc = "Invoke"
    /\ attempt_number = 0
    /\ is_retry = FALSE
    /\ depth = 0
    /\ sent = <<>>
    /\ sleeps = <<>>
    /\ call_metrics = [api_calls_made |-> 0, api_calls_failed |-> 0]
    /\ raised = NoException
    /\ datasets = <<>>
    /\ runsLeft = 0
    /\ InitEngine
    /\ ClientIdle
    /\ AttributesIdle
    /\ OwnershipIdle
    /\ FunctionsIdle

NextCall ==
    \/ Invoke
    \/ CollibraExecuteRequest
    \/ DeleteBulkAssets
    \/ SodaExecuteRequest
    \/ MakeRequest
    \/ RetryWait
    \/ Surface

SpecCall == InitCall /\ [][NextCall]_vars

(***************************************************************************)
(* Attribute bulk create and update of the target client                   *)
(* (clients/collibra_client.py add_attributes_bulk, change_attributes_bulk)*)
(***************************************************************************)
\* the attribute type ids requests refer to
TypeIds == {"t1", "t2", "t3"}

\* a request item: AttributeCreateRequest, or AttributeUpdateRequest with
\* the type of the attribute it updates
AttributeRequest(n, type_id) == [item |-> n, typeId |-> type_id]

\* the request lists followed: items 1..n with any types
AttributeLists ==
    { [i \in 1..Len(types) |-> AttributeRequest(i, types[i])] :
        types \in SeqsUpTo(TypeIds, MaxAttributes) }

\* the items of a request that refer to a type the catalog does not know
UnknownTypeItems(items, known) == { i \in 1..Len(items) : items[i].typeId \notin known }

\* what the catalog answers to a bulk request: 200, or the 404 whose error
\* body names the first type id it does not know
BulkAnswer(items, known) ==
    LET unknown == UnknownTypeItems(items, known) IN
    IF unknown = {} THEN [status |-> 200, errorCode |-> "", id |-> ""]
    ELSE [status |-> 404, errorCode |-> "attTypeNotFoundId",
          id |-> items[CHOOSE i \in unknown : \A j \in unknown : i <= j].typeId]

\* a failure of the backend unrelated to the items
ServerError == [status |-> 500, errorCode |-> "", id |-> ""]

\* a list without the items of the given type
RECURSIVE WithoutType(_, _)
WithoutType(items, type_id) ==
    IF items = <<>> THEN <<>>
    ELSE (IF Head(items).typeId # type_id THEN <<Head(items)>> ELSE <<>>)
         \o WithoutType(Tail(items), type_id)

\* remaining_attributes, were every item dropped with the offending ones
RemainingNone(items, missing_type_id) == <<>>

\* remaining_attributes of add_attributes_bulk
RemainingAttributes(items, missing_type_id) == WithoutType(items, missing_type_id)

\* the requests of one call followed at most
MaxRequests == MaxAttributes + 3

\* one run of add_attributes_bulk against a backend that gives one of the
\* answers; on the handled 404 it calls itself with the remaining attributes
AddAttributesBulkAnswered(answers) ==
    /\ apc = "Running" /\ attr_method = "add_attributes_bulk"
    /\ Len(attr_requests) < MaxRequests
    /\ IF attributes = <<>>
       THEN /\ apc' = "Returned"
            /\ attr_result' = <<>>
            /\ UNCHANGED <<attributes, stored, attr_requests>>
       ELSE \E response \in answers :
            /\ attr_requests' = Append(attr_requests,
                                       [body |-> attributes, response |-> response])
            /\ IF response.status = 200
               THEN /\ stored' = stored \o attributes
                    /\ attr_result' = attributes
                    /\ apc' = "Returned"
                    /\ UNCHANGED attributes
               ELSE IF response.status = 404
                       /\ response.errorCode = "attTypeNotFoundId"
                       /\ response.id # ""
               THEN LET remaining_attributes ==
                            RemainingAttributes(attributes, response.id)
                    IN  IF remaining_attributes # <<>>
                        THEN /\ attributes' = remaining_attributes
                             /\ UNCHANGED <<apc, attr_result, stored>>
                        ELSE /\ apc' = "Returned"
                             /\ attr_result' = <<>>
                             /\ UNCHANGED <<attributes, stored>>
               ELSE /\ apc' = "Raised"
                    /\ UNCHANGED <<attributes, attr_result, stored>>
    /\ UNCHANGED <<known_types, attr_method, attribute_metrics, relation_store>>
    /\ UNCHANGED <<engineVars, clientVars, callVars, ownerVars, functionVars>>

\* add_attributes_bulk against a catalog that answers by its known types
AddAttributesBulk ==
    AddAttributesBulkAnswered({BulkAnswer(attributes, known_types), ServerError})

\* any answer of a backend: 200, a failure, or the "type not found" 404
\* naming any type id, one of the request or not
AnyBulkAnswers ==
    {[status |-> 200, errorCode |-> "", id |-> ""], ServerError}
    \cup { [status |-> 404, errorCode |-> "attTypeNotFoundId", id |-> t] :
             t \in TypeIds \cup {"t0"} }

\* add_attributes_bulk against a backend that may answer anything
AddAttributesBulkAnyBackend == AddAttributesBulkAnswered(AnyBulkAnswers)

\* change_attributes_bulk
ChangeAttributesBulk ==
    /\ apc = "Running" /\ attr_method = "change_attributes_bulk"
    /\ \E response \in {BulkAnswer(attributes, known_types), ServerError} :
         /\ attr_requests' = Append(attr_requests,
                                    [body |-> attributes, response |-> response])
         /\ IF response.status = 200
            THEN /\ stored' = stored \o attributes
                 /\ attr_result' = attributes
                 /\ apc' = "Returned"
            ELSE /\ apc' = "Raised"
                 /\ UNCHANGED <<attr_result, stored>>
    /\ UNCHANGED <<known_types, attr_method, attributes, attribute_metrics,
                   relation_store>>
    /\ UNCHANGED <<engineVars, clientVars, callVars, ownerVars, functionVars>>

InitAttributes ==
    /\ known_types \in SUBSET TypeIds
    /\ attributes \in AttributeLists
    /\ attr_method \in {"add_attributes_bulk", "change_attributes_bulk"}
    /\ apc = "Running"
    /\ attr_result = <<>>
    /\ stored = <<>>
    /\ attr_requests = <<>>
    /\ attribute_metrics = [attributes_created |-> 0, table_relations_created |-> 0]
    /\ relation_store = <<>>
    /\ datasets = <<>>
    /\ runsLeft = 0
    /\ InitEngine
    /\ ClientIdle
    /\ CallIdle
    /\ OwnershipIdle
    /\ FunctionsIdle

NextAttributes ==
    \/ AddAttributesBulk
    \/ ChangeAttributesBulk

InitAnyBackend ==
    /\ InitAttributes
    /\ attr_method = "add_attributes_bulk"

NextAnyBackend == AddAttributesBulkAnyBackend

SpecAnyBackend == InitAnyBackend /\ [][NextAnyBackend]_vars

SpecAttributes == InitAttributes /\ [][NextAttributes]_vars

(***************************************************************************)
(* Ownership synchronisation of one dataset (integration.py,               *)
(* _synchronize_dataset_ownership and the functions it calls)              *)
(***************************************************************************)
\* the owners a responsibility of the table asset can name
OwnerPool == { [id |-> "U1", type |-> "User"], [id |-> "U2", type |-> "User"],
               [id |-> "G1", type |-> "UserGroup"] }

\* the email addresses the catalog holds: of a user, of the members of a group
CatalogEmails(owner_id) ==
    IF owner_id = "U1" THEN << <<"a">> >>
    ELSE IF owner_id = "U2" THEN << <<"B">> >>
    ELSE << <<"a">>, <<"c">> >>

\* the users of the source
SodaUsers == << [userId |-> "s0", email |-> <<"a", "b">>],
                [userId |-> "s1", email |-> <<"a">>],
                [userId |-> "s2", email |-> <<"b">>] >>

Contains(s, t) == \E i \in 0..(Len(s) - Len(t)) : SubSeq(s, i + 1, i + Len(t)) = t

\* SodaClient.find_user: the users whose email contains the search term
RECURSIVE find_user(_, _)
find_user(search_term, i) ==
    IF i > Len(SodaUsers) THEN <<>>
    ELSE (IF Contains(Lower(SodaUsers[i].email), Lower(search_term))
          THEN <<SodaUsers[i]>> ELSE <<>>)
         \o find_user(search_term, i + 1)

\* the loop body of _find_soda_users_by_emails: the first user of the search
\* result with the same email, case aside
ExactMatch(users, email) ==
    LET hits == { i \in 1..Len(users) : Lower(users[i].email) = Lower(email) }
    IN  IF hits = {} THEN <<>>
        ELSE <<users[CHOOSE i \in hits : \A j \in hits : i <= j].userId>>

\* _find_soda_users_by_emails, the searches of the emails in failed raising
RECURSIVE FindSodaUsersByEmails(_, _, _)
FindSodaUsersByEmails(emails, failed, i) ==
    IF i > Len(emails) THEN [ids |-> <<>>, missing |-> <<>>]
    ELSE LET rest == FindSodaUsersByEmails(emails, failed, i + 1)
             found == IF i \in failed THEN <<>>
                      ELSE ExactMatch(find_user(emails[i], 1), emails[i])
         IN  [ids |-> found \o rest.ids,
              missing |-> (IF found = <<>> THEN <<emails[i]>> ELSE <<>>) \o rest.missing]

\* list(set(...))
Dedup(seq) == { seq[i] : i \in 1..Len(seq) }

\* the table asset search and get_responsibilities
GetResponsibilities ==
    /\ opc = "Start"
    /\ \/ \* no unique table asset, or its search raised
          /\ opc' = "Skipped"
          /\ owner_errors' = Append(owner_errors, "No Collibra asset found for ownership sync")
          /\ UNCHANGED owner_faults
       \/ \* get_responsibilities raised
          /\ owner_faults < MaxFaults
          /\ owner_faults' = owner_faults + 1
          /\ opc' = "Raised"
          /\ owner_errors' = Append(owner_errors, "Ownership sync failed")
       \/ /\ opc' = IF collibra_owners = <<>> THEN "NoOwners" ELSE "Mapping"
          /\ UNCHANGED <<owner_errors, owner_faults>>
    /\ UNCHANGED <<collibra_owners, oi, soda_user_ids, missing_emails, owner_pushes>>
    /\ UNCHANGED <<engineVars, clientVars, callVars, attrVars, functionVars>>

\* one iteration of the loop of _map_collibra_owners_to_soda_users
MapOwner ==
    /\ opc = "Mapping"
    /\ oi <= Len(collibra_owners)
    /\ \E lookup_fails \in BOOLEAN :
         LET emails == IF lookup_fails THEN <<>> ELSE CatalogEmails(collibra_owners[oi].id) IN
         \E failed \in SUBSET (1..Len(emails)) :
            LET failures == (IF lookup_fails THEN 1 ELSE 0) + Cardinality(failed)
                mapped == FindSodaUsersByEmails(emails, failed, 1)
            IN  /\ owner_faults + failures <= MaxFaults
                /\ owner_faults' = owner_faults + failures
                /\ soda_user_ids' = soda_user_ids \o mapped.ids
                /\ missing_emails' = missing_emails \o mapped.missing
    /\ oi' = oi + 1
    /\ UNCHANGED <<collibra_owners, opc, owner_errors, owner_pushes>>
    /\ UNCHANGED <<engineVars, clientVars, callVars, attrVars, functionVars>>

\* the end of the mapping and the rest of _synchronize_dataset_ownership
PushOwners ==
    /\ opc = "Mapping"
    /\ oi > Len(collibra_owners)
    /\ LET ids == Dedup(soda_user_ids)
           missing == Dedup(missing_emails)
           errors == owner_errors \o
                     [i \in 1..Cardinality(missing) |-> "No Soda user found with email"]
       IN
       \/ /\ ids = {}
          /\ owner_errors' = Append(errors, "No matching Soda users found for Collibra owners")
          /\ opc' = "Done"
          /\ UNCHANGED <<owner_pushes, owner_faults>>
       \/ /\ ids # {}
          /\ owner_pushes' = Append(owner_pushes, ids)
          /\ owner_errors' = errors
          /\ opc' = "Done"
          /\ UNCHANGED owner_faults
       \/ \* update_dataset raised
          /\ ids # {}
          /\ owner_faults < MaxFaults
          /\ owner_faults' = owner_faults + 1
          /\ owner_errors' = errors \o <<"Failed to update Soda dataset ownership",
                                       "Ownership sync failed">>
          /\ opc' = "Raised"
          /\ UNCHANGED owner_pushes
    /\ UNCHANGED <<collibra_owners, oi, soda_user_ids, missing_emails>>
    /\ UNCHANGED <<engineVars, clientVars, callVars, attrVars, functionVars>>

InitOwnership ==
    /\ collibra_owners \in SeqsUpTo(OwnerPool, MaxOwners)
    /\ opc = "Start"
    /\ oi = 1
    /\ soda_user_ids = <<>>
    /\ missing_emails = <<>>
    /\ owner_pushes = <<>>
    /\ owner_errors = <<>>
    /\ owner_faults = 0
    /\ datasets = <<>>
    /\ runsLeft = 0
    /\ InitEngine
    /\ ClientIdle
    /\ CallIdle
    /\ AttributesIdle
    /\ FunctionsIdle

NextOwnership ==
    \/ GetResponsibilities
    \/ MapOwner
    \/ PushOwners

SpecOwnership == InitOwnership /\ [][NextOwnership]_vars

(***************************************************************************)
(* generate_asset_name called in a row on one seen_names set               *)
(***************************************************************************)
\* the arguments a caller hands to generate_asset_name
NameInputs ==
    [ check_name : {<<"c">>, <<"c", " ", "(", "1", ")">>},
      dataset_name : {<<"t">>},
      database : {None},
      schema : {None, <<"s">>},
      column : {None, <<"x">>} ]

\* one call of generate_asset_name: the name is returned and added to the set
GenerateAssetName ==
    /\ Len(generated) < MaxNames
    /\ \E input \in NameInputs :
         LET asset_name == generate_asset_name(input.check_name, input.dataset_name,
                                               used_names, input.database,
                                               input.schema, input.column)
         IN  /\ used_names' = used_names \cup {asset_name}
             /\ generated' = Append(generated,
                                [input |-> input, before |-> used_names,
                                 asset_name |-> asset_name,
                                 after |-> used_names \cup {asset_name}])
    /\ UNCHANGED <<engineVars, clientVars, callVars, attrVars, ownerVars, defVars, pipeVars, poolVars, waitVars>>

\* a caller starts a new loop: seen_names = set()
FreshSeenNames ==
    /\ used_names # {}
    /\ used_names' = {}
    /\ UNCHANGED generated
    /\ UNCHANGED <<engineVars, clientVars, callVars, attrVars, ownerVars, defVars, pipeVars, poolVars, waitVars>>

InitNames ==
    /\ NamesIdle
    /\ DefinitionsIdle
    /\ PipelineIdle
    /\ PoolIdle
    /\ WaitIdle
    /\ datasets = <<>>
    /\ runsLeft = 0
    /\ InitEngine
    /\ ClientIdle
    /\ CallIdle
    /\ AttributesIdle
    /\ OwnershipIdle

NextNames ==
    \/ GenerateAssetName
    \/ FreshSeenNames

SpecNames == InitNames /\ [][NextNames]_vars

(***************************************************************************)
(* The attribute definitions of one check: _add_diagnostic_attributes and  *)
(* _add_custom_attributes, with "threshold" in the custom attribute        *)
(* mapping                                                                 *)
(***************************************************************************)
\* a key the diagnostics do not hold
Absent == -1

\* the raw threshold values of a check, and "no threshold"
NoThreshold == 1000
ThresholdValues == {NoThreshold, -5, 0, 5, 100, 150}

\* what the source reports of a check, as far as the attributes read it:
\*   threshold, origin: the threshold number and whether it stands in the
\*     diagnostics (a number) or only in the definition (text)
\*   metric_percent: "metric: percent" is part of the threshold
\*   checkType
\*   checkRowsTested, datasetRowsTested, failedRowsCount of the diagnostics;
\*   no more rows failed than were tested
SodaChecks ==
    { c \in [ threshold : ThresholdValues,
              origin : {"diagnostics", "definition"},
              metric_percent : BOOLEAN,
              checkType : {"missing", "row_count"},
              checkRowsTested : {Absent} \cup 0..MaxRows,
              datasetRowsTested : {Absent, MaxRows},
              failedRowsCount : {Absent} \cup 0..MaxRows ] :
        /\ c.failedRowsCount <= (IF c.checkRowsTested > 0 THEN c.checkRowsTested
                                 ELSE Max(c.datasetRowsTested, 0))
              \/ (c.checkRowsTested <= 0 /\ c.datasetRowsTested <= 0)
        /\ c.threshold = NoThreshold => (c.origin = "definition" /\ ~c.metric_percent) }

\* str(value) of an int
StrInt(n) == IF n < 0 THEN <<"-">> \o ToStr(0 - n) ELSE ToStr(n)

\* re.search(r'([0-9.]+)', s).group(1): the first run of digits and dots,
\* <<>> when there is no match
IsNumericChar(c) == c = "." \/ \E i \in 1..Len(DigitChars) : DigitChars[i] = c
NumericRun(s) ==
    IF \A i \in 1..Len(s) : ~IsNumericChar(s[i]) THEN <<>>
    ELSE LET first == CHOOSE i \in 1..Len(s) :
                         /\ IsNumericChar(s[i])
                         /\ \A j \in 1..(i - 1) : ~IsNumericChar(s[j])
             last == CHOOSE i \in first..Len(s) :
                         /\ \A j \in first..i : IsNumericChar(s[j])
                         /\ (i = Len(s) \/ ~IsNumericChar(s[i + 1]))
         IN  SubSeq(s, first, last)

\* _extract_threshold_value: str(value) of a number in the diagnostics, or
\* the digits a threshold pattern finds in the definition; None otherwise
extract_threshold_value(c) ==
    IF c.threshold = NoThreshold THEN None
    ELSE IF c.origin = "diagnostics" THEN StrInt(c.threshold)
    ELSE IF c.threshold < 0 THEN None
    ELSE ToStr(c.threshold)

\* percentage_check_types: the check types taken to use percentages
percentage_check_types == {"missing", "duplicate", "invalid", "failed_rows"}

\* _is_percentage_threshold
is_percentage_threshold(c) ==
    \/ c.metric_percent
    \/ /\ c.checkType \in percentage_check_types
       /\ c.origin = "definition" /\ c.threshold # NoThreshold

\* _sanitize_threshold_value
sanitize_threshold_value(threshold_value) ==
    IF threshold_value = None THEN None ELSE NumericRun(threshold_value)

\* f"{numeric_value / 100.0:.10f}".rstrip('0').rstrip('.') for a whole number
FormatDecimal(numeric_value) ==
    LET whole == numeric_value \div 100
        d1 == (numeric_value % 100) \div 10
        d2 == numeric_value % 10
    IN  ToStr(whole) \o
        (IF d1 = 0 /\ d2 = 0 THEN <<>>
         ELSE IF d2 = 0 THEN <<".">> \o ToStr(d1)
         ELSE <<".">> \o ToStr(d1) \o ToStr(d2))

\* f"{passed / tested * 100:.2f}"
PassingFraction(passed, tested) ==
    LET hundredths == (passed * 10000 * 2 + tested) \div (2 * tested)
    IN  ToStr(hundredths \div 100) \o <<".">>
        \o ToStr((hundredths % 100) \div 10) \o ToStr(hundredths % 10)

Definition(type, value) == [type |-> type, value |-> value]

\* the threshold branch of _add_custom_attributes: the definitions it appends
ThresholdDefinitions(c) ==
    LET threshold_value == extract_threshold_value(c)
        is_percent == is_percentage_threshold(c)
                         \/ c.checkType \in percentage_check_types
        sanitized_value == sanitize_threshold_value(threshold_value)
    IN  IF threshold_value = None THEN <<>>
        ELSE IF ~is_percent THEN <<>>
        ELSE IF sanitized_value = None THEN <<>>
        ELSE IF ParseNat(sanitized_value) <= 100
        THEN <<Definition("threshold", FormatDecimal(ParseNat(sanitized_value)))>>
        ELSE <<>>

\* check_rows_tested and failed_rows_count after the loop over the diagnostics
check_rows_tested(c) ==
    IF c.checkRowsTested # Absent /\ c.checkRowsTested # 0 THEN c.checkRowsTested
    ELSE IF c.datasetRowsTested # Absent THEN c.datasetRowsTested
    ELSE 0
failed_rows_count(c) == IF c.failedRowsCount # Absent THEN c.failedRowsCount ELSE 0

\* _add_diagnostic_attributes: the definitions it appends
DiagnosticDefinitions(c) ==
    LET tested == check_rows_tested(c)
        failed == failed_rows_count(c)
    IN  IF tested > 0
        THEN <<Definition("check_loaded_rows_attribute", tested)>>
             \o (IF failed > 0
                 THEN <<Definition("check_rows_failed_attribute", failed),
                        Definition("check_rows_passed_attribute", tested - failed),
                        Definition("check_passing_fraction_attribute",
                                   PassingFraction(tested - failed, tested))>>
                 ELSE <<>>)
        ELSE <<>>

\* self._add_diagnostic_attributes(check, attribute_definitions)
AddDiagnosticAttributes ==
    /\ dpc = "Diagnostic"
    /\ attribute_definitions' = attribute_definitions \o DiagnosticDefinitions(soda_check)
    /\ dpc' = "Custom"
    /\ UNCHANGED soda_check
    /\ UNCHANGED <<engineVars, clientVars, callVars, attrVars, ownerVars, nameVars, pipeVars, poolVars, waitVars>>

\* self._add_custom_attributes(check, attribute_definitions)
AddCustomAttributes ==
    /\ dpc = "Custom"
    /\ attribute_definitions' = attribute_definitions \o ThresholdDefinitions(soda_check)
    /\ dpc' = "Done"
    /\ UNCHANGED soda_check
    /\ UNCHANGED <<engineVars, clientVars, callVars, attrVars, ownerVars, nameVars, pipeVars, poolVars, waitVars>>

InitDefinitions ==
    /\ soda_check \in SodaChecks
    /\ dpc = "Diagnostic"
    /\ attribute_definitions = <<>>
    /\ datasets = <<>>
    /\ runsLeft = 0
    /\ InitEngine
    /\ ClientIdle
    /\ CallIdle
    /\ AttributesIdle
    /\ OwnershipIdle
    /\ NamesIdle
    /\ PipelineIdle
    /\ PoolIdle
    /\ WaitIdle

NextDefinitions ==
    \/ AddDiagnosticAttributes
    \/ AddCustomAttributes

SpecDefinitions == InitDefinitions /\ [][NextDefinitions]_vars

(***************************************************************************)
(* The pipeline service (src/services/pipeline_service.py)                 *)
(***************************************************************************)
\* layers = ["raw", "staging", "mart", "quality"]
Layers == <<"raw", "staging", "mart", "quality">>

\* what MetadataService.sync_layer_metadata does when it is called: it returns
\* a result with status "success" or "skipped", or it raises
SyncOutcomes == {"success", "skipped", "raise"}

\* QualityService.validate_quality_before_sync: True if no critical check of
\* the layer failed
validate_quality_before_sync(failed_critical) == failed_critical = 0

\* PipelineService.run_quality_checks
run_quality_checks(layer, failed_critical) ==
    LET quality_passed == validate_quality_before_sync(failed_critical) IN
    [ layer |-> layer,
      quality_passed |-> quality_passed,
      status |-> IF quality_passed THEN "passed" ELSE "failed" ]

\* PipelineService.sync_metadata_with_quality_gate: the layers the metadata
\* sync is called for, and the result (status "raised" if the sync raised)
sync_metadata_with_quality_gate(layer, is_strict, failed_critical, sync_outcome) ==
    LET quality_result == run_quality_checks(layer, failed_critical) IN
    IF is_strict /\ ~quality_result.quality_passed
    THEN [ called |-> <<>>,
           result |-> [ status |-> "skipped", layer |-> layer,
                        reason |-> "Quality gate failed",
                        quality_result |-> quality_result,
                        sync_result |-> "none" ] ]
    ELSE [ called |-> <<layer>>,
           result |-> [ status |-> IF sync_outcome = "raise" THEN "raised" ELSE "success",
                        layer |-> layer,
                        reason |-> "none",
                        quality_result |-> quality_result,
                        sync_result |-> sync_outcome ] ]

\* the status of the result of run_complete_pipeline
overall_status(layer_results) ==
    LET all_passed == \A i \in 1..Len(layer_results) :
                          layer_results[i].status \in {"success", "skipped"}
    IN  IF all_passed THEN "success" ELSE "partial_failure"

\* run_complete_pipeline is called: results = {}
RunCompletePipeline ==
    /\ gpc = "Idle"
    /\ strict' \in BOOLEAN
    /\ layer_index' = 1
    /\ results' = <<>>
    /\ sync_calls' = <<>>
    /\ gpc' = "Layers"
    /\ UNCHANGED pipeline_status
    /\ UNCHANGED <<engineVars, clientVars, callVars, attrVars, ownerVars, nameVars, defVars,
                   poolVars, waitVars>>

\* one turn of "for layer in layers": sync_metadata_with_quality_gate returns
\* the result of the layer, or it raises and the result is an error
SyncLayer ==
    /\ gpc = "Layers"
    /\ layer_index <= Len(Layers)
    /\ \E failed_critical \in 0..MaxFailedCritical, sync_outcome \in SyncOutcomes :
         LET layer == Layers[layer_index]
             ret == sync_metadata_with_quality_gate(layer, strict,
                                                    failed_critical, sync_outcome)
         IN  /\ sync_calls' = sync_calls \o ret.called
             /\ results' = Append(results,
                                  IF ret.result.status = "raised"
                                  THEN [ret.result EXCEPT !.status = "error"]
                                  ELSE ret.result)
    /\ layer_index' = layer_index + 1
    /\ UNCHANGED <<strict, pipeline_status, gpc>>
    /\ UNCHANGED <<engineVars, clientVars, callVars, attrVars, ownerVars, nameVars, defVars,
                   poolVars, waitVars>>

\* after the loop: the overall status is determined and returned
ReturnPipeline ==
    /\ gpc = "Layers"
    /\ layer_index > Len(Layers)
    /\ pipeline_status' = overall_status(results)
    /\ gpc' = "Returned"
    /\ UNCHANGED <<strict, layer_index, results, sync_calls>>
    /\ UNCHANGED <<engineVars, clientVars, callVars, attrVars, ownerVars, nameVars, defVars,
                   poolVars, waitVars>>

InitPipeline ==
    /\ PipelineIdle
    /\ PoolIdle
    /\ WaitIdle
    /\ NamesIdle
    /\ DefinitionsIdle
    /\ datasets = <<>>
    /\ runsLeft = 0
    /\ InitEngine
    /\ ClientIdle
    /\ CallIdle
    /\ AttributesIdle
    /\ OwnershipIdle

NextPipeline ==
    \/ RunCompletePipeline
    \/ SyncLayer
    \/ ReturnPipeline

SpecPipeline == InitPipeline /\ [][NextPipeline]_vars

(***************************************************************************)
(* The connection pool (src/utils/connection_pool.py) used by threads      *)
(***************************************************************************)
Threads == 1..NumThreads

\* the connections _initialize_pool makes
InitialConnections == [i \in 1..PoolMinSize |-> i]

\* the elements of a queue
Elements(queue) == { queue[i] : i \in 1..Len(queue) }

\* a thread moves on
Goto(t, position) == threads' = [threads EXCEPT ![t].pc = position]

\* the position of a thread that no call of the pool is running in
Outside(t) == IF threads[t].conn = 0 THEN "idle" ELSE "holding"

\* the pool's other variables
PoolUnchanged ==
    UNCHANGED <<engineVars, clientVars, callVars, attrVars, ownerVars, nameVars, defVars,
                pipeVars, waitVars>>

\* get(): self._pool.get(timeout=self.timeout) returns a connection, or
\* raises Empty when the queue stayed empty for the timeout
GetFromQueue(t) ==
    /\ threads[t].pc = "idle"
    /\ pool_ops < MaxPoolOps
    /\ pool_ops' = pool_ops + 1
    /\ IF pool_queue # <<>>
       THEN /\ threads' = [threads EXCEPT ![t].pc = "get_read",
                                          ![t].conn = Head(pool_queue)]
            /\ pool_queue' = Tail(pool_queue)
       ELSE /\ Goto(t, "get_lock")
            /\ UNCHANGED pool_queue
    /\ UNCHANGED <<pool_created, pool_active, pool_lock, live, next_conn>>
    /\ PoolUnchanged

\* self._active += 1 and self._active -= 1 read the counter ...
ReadActive(t) ==
    /\ threads[t].pc \in {"get_read", "create_read", "put_read", "full_read"}
    /\ threads' = [threads EXCEPT
          ![t].reg = pool_active,
          ![t].pc = CASE threads[t].pc = "get_read" -> "get_write"
                      [] threads[t].pc = "create_read" -> "create_write"
                      [] threads[t].pc = "put_read" -> "put_write"
                      [] threads[t].pc = "full_read" -> "full_write"]
    /\ UNCHANGED <<pool_queue, pool_created, pool_active, pool_lock, live,
                   next_conn, pool_ops>>
    /\ PoolUnchanged

\* ... and write it: get() returns the connection of the queue
GetReturn(t) ==
    /\ threads[t].pc = "get_write"
    /\ pool_active' = threads[t].reg + 1
    /\ Goto(t, "holding")
    /\ UNCHANGED <<pool_queue, pool_created, pool_lock, live, next_conn, pool_ops>>
    /\ PoolUnchanged

\* except Empty: with self._lock: a connection is created if _created is
\* below max_size, else TimeoutError is raised
GetLocked(t) ==
    /\ threads[t].pc = "get_lock"
    /\ pool_lock = 0
    /\ IF pool_created < PoolMaxSize
       THEN /\ pool_lock' = t
            /\ live' = live \cup {next_conn}
            /\ next_conn' = next_conn + 1
            /\ pool_created' = pool_created + 1
            /\ threads' = [threads EXCEPT ![t].pc = "create_read",
                                          ![t].conn = next_conn]
       ELSE /\ Goto(t, "idle")
            /\ UNCHANGED <<pool_lock, live, next_conn, pool_created>>
    /\ UNCHANGED <<pool_queue, pool_active, pool_ops>>
    /\ PoolUnchanged

\* self._active += 1 under the lock, and get() returns the new connection
CreateReturn(t) ==
    /\ threads[t].pc = "create_write"
    /\ pool_active' = threads[t].reg + 1
    /\ pool_lock' = 0
    /\ Goto(t, "holding")
    /\ UNCHANGED <<pool_queue, pool_created, live, next_conn, pool_ops>>
    /\ PoolUnchanged

\* put(conn): self._pool.put(conn, block=False) queues the connection, or
\* raises Full
PutToQueue(t) ==
    /\ threads[t].pc = "holding"
    /\ pool_ops < MaxPoolOps
    /\ pool_ops' = pool_ops + 1
    /\ IF Len(pool_queue) < PoolMaxSize
       THEN /\ pool_queue' = Append(pool_queue, threads[t].conn)
            /\ Goto(t, "put_read")
       ELSE /\ Goto(t, "full_read")
            /\ UNCHANGED pool_queue
    /\ UNCHANGED <<pool_created, pool_active, pool_lock, live, next_conn>>
    /\ PoolUnchanged

\* self._active -= 1 after the connection was queued: put() returns
PutReturn(t) ==
    /\ threads[t].pc = "put_write"
    /\ pool_active' = threads[t].reg - 1
    /\ threads' = [threads EXCEPT ![t].pc = "idle", ![t].conn = 0]
    /\ UNCHANGED <<pool_queue, pool_created, pool_lock, live, next_conn, pool_ops>>
    /\ PoolUnchanged

\* except: self._active -= 1, then the connection is closed
PutDiscard(t) ==
    /\ threads[t].pc = "full_write"
    /\ pool_active' = threads[t].reg - 1
    /\ live' = live \ {threads[t].conn}
    /\ threads' = [threads EXCEPT ![t].pc = "idle", ![t].conn = 0]
    /\ UNCHANGED <<pool_queue, pool_created, pool_lock, next_conn, pool_ops>>
    /\ PoolUnchanged

\* close_all(): with self._lock: the connections of the queue are closed
CloseAllDrain(t) ==
    /\ threads[t].pc \in {"idle", "holding"}
    /\ pool_ops < MaxPoolOps
    /\ pool_ops' = pool_ops + 1
    /\ pool_lock = 0
    /\ pool_lock' = t
    /\ live' = live \ Elements(pool_queue)
    /\ pool_queue' = <<>>
    /\ Goto(t, "close_reset")
    /\ UNCHANGED <<pool_created, pool_active, next_conn>>
    /\ PoolUnchanged

\* self._pool = Queue(...); self._created = 0; self._active = 0
CloseAllReset(t) ==
    /\ threads[t].pc = "close_reset"
    /\ pool_queue' = <<>>
    /\ pool_created' = 0
    /\ pool_active' = 0
    /\ pool_lock' = 0
    /\ Goto(t, Outside(t))
    /\ UNCHANGED <<live, next_conn, pool_ops>>
    /\ PoolUnchanged

\* ConnectionPool.__init__ has run: min_size connections are in the queue
InitPool ==
    /\ pool_queue = InitialConnections
    /\ pool_created = PoolMinSize
    /\ pool_active = 0
    /\ pool_lock = 0
    /\ threads = [t \in Threads |-> [pc |-> "idle", conn |-> 0, reg |-> 0]]
    /\ live = Elements(InitialConnections)
    /\ next_conn = PoolMinSize + 1
    /\ pool_ops = 0
    /\ WaitIdle
    /\ NamesIdle
    /\ DefinitionsIdle
    /\ PipelineIdle
    /\ datasets = <<>>
    /\ runsLeft = 0
    /\ InitEngine
    /\ ClientIdle
    /\ CallIdle
    /\ AttributesIdle
    /\ OwnershipIdle

NextPool ==
    \E t \in Threads :
        \/ GetFromQueue(t)
        \/ ReadActive(t)
        \/ GetReturn(t)
        \/ GetLocked(t)
        \/ CreateReturn(t)
        \/ PutToQueue(t)
        \/ PutReturn(t)
        \/ PutDiscard(t)
        \/ CloseAllDrain(t)
        \/ CloseAllReset(t)

SpecPool == InitPool /\ [][NextPool]_vars

(***************************************************************************)
(* Waiting for a synchronisation job (collibra/metadata_sync.py)           *)
(***************************************************************************)
JobStatuses == {"COMPLETED", "FAILED", "CANCELLED", "CANCELED", "RUNNING"}

\* what one endpoint answers to _make_request and response.json(): no such
\* job, another client error, an error that stays after the retries, a body
\* that is not JSON, a JSON object without 'status', or a job status
EndpointAnswers == {"404", "403", "503", "not_json", "no_status"} \cup JobStatuses

\* the endpoints get_job_status tries in turn
possible_endpoints == 1..3

max_consecutive_errors == 3

\* CollibraRepository.get_job_status: the first endpoint that does not
\* answer 404 decides
get_job_status(answers) ==
    LET found == { i \in possible_endpoints : answers[i] # "404" }
    IN  IF found = {}
        THEN [exc |-> "ConfigurationError", status |-> ""]
        ELSE LET answer == answers[CHOOSE i \in found : \A j \in found : i <= j]
             IN  CASE answer = "403" -> [exc |-> "NonRetryableError", status |-> ""]
                   [] answer = "503" -> [exc |-> "RetryableError", status |-> ""]
                   [] answer = "not_json" -> [exc |-> "ValueError", status |-> ""]
                   [] answer = "no_status" -> [exc |-> "", status |-> "UNKNOWN"]
                   [] OTHER -> [exc |-> "", status |-> answer]

\* one round of the loop of wait_for_job_completion: the check of the
\* elapsed time, get_job_status, and time.sleep(poll_interval)
PollJob ==
    /\ wpc = "Waiting"
    /\ IF elapsed_time > MaxWaitTime
       THEN /\ wpc' = "Raised"
            /\ job_result' = [exc |-> "TimeoutError", status |-> ""]
            /\ UNCHANGED <<elapsed_time, consecutive_errors, reported>>
       ELSE \E answers \in [possible_endpoints -> EndpointAnswers], step \in 1..MaxStep :
              LET status == get_job_status(answers)
                  errors == consecutive_errors + 1
              IN  /\ reported' = Append(reported, status)
                  /\ elapsed_time' = elapsed_time + step
                  /\ IF status.exc = ""
                     THEN /\ consecutive_errors' = 0
                          /\ CASE status.status = "COMPLETED" ->
                                    /\ wpc' = "Returned"
                                    /\ job_result' = status
                               [] status.status \in {"FAILED", "CANCELLED", "CANCELED"} ->
                                    /\ wpc' = "Raised"
                                    /\ job_result' = [exc |-> "RuntimeError", status |-> ""]
                               [] OTHER -> UNCHANGED <<wpc, job_result>>
                     ELSE /\ consecutive_errors' = errors
                          /\ IF errors >= max_consecutive_errors
                             THEN /\ wpc' = "Returned"
                                  /\ job_result' = [exc |-> "", status |-> "TRIGGERED"]
                             ELSE UNCHANGED <<wpc, job_result>>
    /\ UNCHANGED <<engineVars, clientVars, callVars, attrVars, ownerVars, nameVars, defVars,
                   pipeVars, poolVars>>

\* wait_for_job_completion has been called
InitWait ==
    /\ wpc = "Waiting"
    /\ elapsed_time = 0
    /\ consecutive_errors = 0
    /\ job_result = NoResult
    /\ reported = <<>>
    /\ NamesIdle
    /\ DefinitionsIdle
    /\ PipelineIdle
    /\ PoolIdle
    /\ datasets = <<>>
    /\ runsLeft = 0
    /\ InitEngine
    /\ ClientIdle
    /\ CallIdle
    /\ AttributesIdle
    /\ OwnershipIdle

NextWait == PollJob

SpecWait == InitWait /\ [][NextWait]_vars

\* the thread that waits keeps running
SpecWaitFair == SpecWait /\ WF_vars(NextWait)

(***************************************************************************)
(* Properties                                                              *)
(***************************************************************************)
\* str.startswith(prefix)
StartsWith(s, prefix) ==
    /\ Len(prefix) <= Len(s)
    /\ SubSeq(s, 1, Len(prefix)) = prefix

\* "[DATABASE]-[SCHEMA]-[TABLE]": how generate_asset_name starts the name of
\* every check of a dataset
DatasetPrefix(dataset) ==
    Join(<<NormalizeSegment(Database), NormalizeSegment(ExtractSchema(dataset)),
           NormalizeSegment(dataset.name)>>, <<"-">>)

\* asset_name is a name generate_asset_name gives to a check of the dataset
BelongsTo(asset_name, dataset) ==
    \/ StartsWith(asset_name, DatasetPrefix(dataset) \o <<" ">>)
    \/ StartsWith(asset_name, DatasetPrefix(dataset) \o <<"-">>)

\* the check assets of the current dataset's domain that match its suffix
ExistingMatching ==
    { a \in catalog : /\ a.domain = domain_id
                      /\ EndsWith(a.name, DeletionPattern(Dataset)) }

\* bulk delete calls in a log of operations
DeleteOps(log) ==
    Cardinality({ i \in 1..Len(log) : log[i].op = "delete_bulk_assets" })

\* C1: every asset id a dataset's deletion sync sends to the bulk delete is of
\* an asset whose name ends with that dataset's suffix pattern, is absent from
\* its desired names, and is an asset of that dataset, never of another one
C1_DeletesOnlyOwnStaleAssets ==
    \A i \in 1..Len(deletions) :
        \A a \in deletions[i].found :
            a.id \in deletions[i].ids =>
                /\ EndsWith(a.name, DeletionPattern(datasets[deletions[i].ds]))
                /\ a.name \notin deletions[i].desired
                /\ BelongsTo(a.name, datasets[deletions[i].ds])

C3_StaleAssetsRemoved ==
    [][(pc = "SyncOwnership" /\ idx' = idx + 1 /\ runsLeft < MaxRuns - 1) =>
          \A a \in catalog' :
              (a.domain = domain_id /\ BelongsTo(a.name, Dataset))
                  => a.name \in seen_names]_vars

\* C4: at the end of a run every processed check has exactly one asset, no two
\* checks share an asset, and (domain, name) identifies one asset
C4_OneAssetPerCheck ==
    pc = "Finished" =>
        /\ \A w1, w2 \in writes :
              (w1.ds = w2.ds /\ w1.chk = w2.chk) => w1.asset = w2.asset
        /\ \A w1, w2 \in writes :
              w1.asset = w2.asset => (w1.ds = w2.ds /\ w1.chk = w2.chk)
        /\ \A w \in writes : w.asset \in Ids(catalog)
        /\ \A a, b \in catalog :
              (a.domain = b.domain /\ a.name = b.name) => a = b

C6_FoundAnywhereIsUpdated ==
    [][(pc = "DiffAssets" /\ idx' = idx) =>
          LET asset_name == PreparedName(Dataset, checks[k], seen_names)
              n == Len(assets_to_update')
          IN  IF find_asset(catalog, asset_name, "", "EXACT") # {}
              THEN /\ assets_to_create' = assets_to_create
                   /\ n = Len(assets_to_update) + 1
                   /\ assets_to_update'[n].name = asset_name
                   /\ assets_to_update'[n].domainId = domain_id
              ELSE /\ assets_to_update' = assets_to_update
                   /\ Len(assets_to_create') = Len(assets_to_create) + 1]_vars

\* the position of a stage in the documented order
StageRank(stage) ==
    CASE stage = "Verify"        -> 1
      [] stage = "ResolveDomain" -> 2
      [] stage = "FetchChecks"   -> 3
      [] stage = "DiffAssets"    -> 4
      [] stage = "ApplyAssetOps" -> 5
      [] stage = "SyncAttributesAndRelations" -> 6
      [] stage = "SyncDeletions" -> 7
      [] stage = "SyncOwnership" -> 8

\* C7: the external operations of a dataset pass follow the stage order: no
\* attribute or relation write before a bulk create/update, no delete before
\* an attribute or relation operation, ownership last; and an operation is
\* only issued for a dataset once every dataset before it is done
C7_StagesInOrder ==
    /\ \A i, j \in 1..Len(ops) :
          i < j =>
            /\ StageRank(ops[i].stage) <= StageRank(ops[j].stage)
            /\ ops[i].ds = ops[j].ds
            /\ ~(/\ ops[i].op \in {"attributes_bulk", "set_relations"}
                 /\ ops[j].op \in {"change_assets_bulk", "add_assets_bulk"})
            /\ ~(/\ ops[i].op = "delete_bulk_assets"
                 /\ ops[j].op \in {"find_attributes", "attributes_bulk",
                                   "set_relations"})
            /\ ~(/\ ops[i].op \in {"get_responsibilities", "find_user",
                                   "update_dataset"}
                 /\ ops[j].stage # "SyncOwnership")
    /\ \A i \in 1..Len(ops) :
          \A d \in 1..(ops[i].ds - 1) : outcome[d] # "none"
    /\ \A i \in 1..Len(attempted) : attempted[i] = i

\* the pass of the second dataset went through every stage, with a bulk
\* create, attribute and relation writes, a bulk delete and an ownership push
C7_Witness ==
    /\ Len(ops) > 0
    /\ ops[1].ds = 2
    /\ \A o \in {"add_assets_bulk", "attributes_bulk", "set_relations",
                 "delete_bulk_assets", "update_dataset"} :
          \E i \in 1..Len(ops) : ops[i].op = o

\* C8: a dataset whose pass recorded an error is counted in datasets_failed
\* and not in datasets_processed
C8_ErrorMeansFailed ==
    \A i \in 1..Len(datasets) :
        passErrors[i] => outcome[i] \in {"none", "failed"}

\* datasets counted failed so far
FailedDatasets == { i \in 1..Len(datasets) : outcome[i] = "failed" }

\* errors of the form "Failed to process dataset ..." in the overall list
DatasetFailures ==
    { i \in 1..Len(metrics.errors) : metrics.errors[i] = "Failed to process dataset" }

C10_EveryPageOnce ==
    ppc = "Returned" =>
        LET records == Matching(source, request_url)
            pages == (Len(records) + PageSize - 1) \div PageSize
        IN  /\ all_items = records
            /\ Len(requested) = (IF pages = 0 THEN 1 ELSE pages)
            /\ \A i \in 1..Len(requested) :
                  /\ ParseNat(Param(requested[i], <<"p", "a", "g", "e">>)) = i - 1
                  /\ Param(requested[i], <<"d", "a", "t", "a", "s", "e", "t", "I", "d">>) = Param(request_url, <<"d", "a", "t", "a", "s", "e", "t", "I", "d">>)

(***************************************************************************)
(* Properties of one external call through the retry layer                 *)
(***************************************************************************)
\* the last request sent
LastSent == sent[Len(sent)]

\* the statuses of a request error that must not be retried
NonRetryableStatus == {401, 403}

\* a transient failure: timeout, connection error, 429, 5xx
Transient(answer) ==
    answer.error # "" \/ answer.status = 429 \/ answer.status >= 500

\* the sleeps of the retry layer, in order
RECURSIVE RetrySleepsFrom(_)
RetrySleepsFrom(i) ==
    IF i > Len(sleeps) THEN <<>>
    ELSE (IF sleeps[i].by = "retry" THEN <<sleeps[i].seconds>> ELSE <<>>)
         \o RetrySleepsFrom(i + 1)
RetrySleeps == RetrySleepsFrom(1)

\* the client functions of the target catalog
TargetFunctions == {"execute_request", "delete_bulk_assets"}

\* C11: a request answered 401 or 403 is the last request of the call: the
\* wrapped function is not invoked again and the failure goes to the caller
C11_NonRetryableSurfacedAtOnce ==
    \A i \in 1..Len(sent) :
        sent[i].answer.status \in NonRetryableStatus =>
            /\ i = Len(sent)
            /\ sent[i].attempt = 1
            /\ cpc \in {"Failed", "Surfaced"}

\* C12: the wrapped function is never attempted more than the maximum number
\* of times, a transient failure never ends in a normal return, and a call
\* whose every request failed transiently reaches the caller as a failure
\* only after the maximum number of attempts, the waits between them growing
C12_TransientRetriedThenSurfaced ==
    /\ attempt_number <= MAX_RETRIES
    /\ (cpc = "Returned" => ~Transient(LastSent.answer))
    /\ (cpc = "Surfaced" /\ (\A i \in 1..Len(sent) : Transient(sent[i].answer)) =>
           /\ attempt_number = MAX_RETRIES
           /\ Len(RetrySleeps) = MAX_RETRIES - 1
           /\ \A i \in 1..Len(RetrySleeps) - 1 : RetrySleeps[i] < RetrySleeps[i + 1])

\* C13: a 429 answer to a target client function makes it sleep 10 seconds
\* and run once more with the retry flag set, and a run with the flag set
\* does not run again
C13_TargetRateLimitRetriedOnce ==
    func \in TargetFunctions =>
        /\ depth <= 1
        /\ \A i \in 1..Len(sent) :
              (sent[i].answer.status = 429 /\ ~sent[i].is_retry
               /\ (i = Len(sent) \/ sent[i + 1].to = "api")) =>
                  /\ \E j \in 1..Len(sleeps) :
                        /\ sleeps[j].by = "client"
                        /\ sleeps[j].attempt = sent[i].attempt
                        /\ sleeps[j].seconds = Seconds(10)
                  /\ IF i = Len(sent)
                     THEN cpc = "Running" /\ is_retry /\ depth = 1
                     ELSE /\ sent[i + 1].attempt = sent[i].attempt
                          /\ sent[i + 1].is_retry

\* C14: a 429 answer to the source client makes it sleep and send the same
\* request again, and the sleep after a repeated 429 is longer than the first
C14_SourceRateLimitBacksOff ==
    func = "soda_execute_request" =>
        /\ \A i \in 1..Len(sent) :
              sent[i].answer.status = 429 =>
                  /\ \E j \in 1..Len(sleeps) :
                        sleeps[j].by = "client" /\ sleeps[j].attempt = sent[i].attempt
                  /\ IF i = Len(sent) THEN cpc = "Running"
                     ELSE sent[i + 1].attempt = sent[i].attempt
        /\ \A i, j \in 1..Len(sleeps) :
              (i < j /\ sleeps[i].by = "client" /\ sleeps[j].by = "client"
               /\ sleeps[i].attempt = sleeps[j].attempt) =>
                  sleeps[i].seconds < sleeps[j].seconds

\* C15: a redirect to the sign-in page answering a target client function is
\* not followed and ends the call: no request is sent after it, to the
\* redirect target or again to the catalog, and the caller gets the failure
C15_SignInRedirectIsAuthFailure ==
    func \in TargetFunctions =>
        \A i \in 1..Len(sent) :
            sent[i].answer.signin =>
                /\ i = Len(sent)
                /\ cpc \in {"Failed", "Surfaced"}
                /\ raised.status = 401

\* C16: a run of delete_bulk_assets whose last response is 404, the first
\* response or the one after a redirect, returns without raising; one whose
\* last response is 500 raises HTTPError, and the retry layer runs the delete
\* again until its attempts are used up
C16_DeleteIdempotent ==
    /\ [][(cpc = "Running" /\ func = "delete_bulk_assets"
           /\ Len(sent') > Len(sent)) =>
             LET last == sent'[Len(sent')] IN
             /\ (last.answer.status = 404 => cpc' = "Returned")
             /\ (last.answer.status = 500 =>
                    /\ cpc' = "Failed"
                    /\ raised' = [exc |-> "HTTPError", status |-> 500])]_vars
    /\ [](func = "delete_bulk_assets" /\ cpc = "Surfaced" /\ raised.status = 500 =>
             attempt_number = MAX_RETRIES)
    /\ [](func = "delete_bulk_assets" /\ cpc = "Invoke" /\ attempt_number > 0 =>
             LastSent.answer.status # 404)

\* a delete that failed with 500 is run again and returns on a 404 that
\* answers the request sent to a redirect target
C16_Witness ==
    /\ func = "delete_bulk_assets"
    /\ cpc = "Returned"
    /\ Len(sent) >= 3
    /\ sent[1].answer.status = 500
    /\ LastSent.to = "redirect"
    /\ LastSent.answer.status = 404
    /\ LastSent.attempt = 2

(***************************************************************************)
(* Properties of the attribute bulk functions                              *)
(***************************************************************************)
\* the list the followed function was first called with
OriginalAttributes ==
    IF attr_requests = <<>> THEN attributes ELSE attr_requests[1].body

\* the items of a list whose type the catalog knows, in order
RECURSIVE KnownOnly(_)
KnownOnly(items) ==
    IF items = <<>> THEN <<>>
    ELSE (IF Head(items).typeId \in known_types THEN <<Head(items)>> ELSE <<>>)
         \o KnownOnly(Tail(items))

\* C17: add_attributes_bulk returns, and has the catalog write, exactly the
\* items of its argument whose type the catalog knows, in order, an empty
\* list when none is left; each retry carries the previous request without
\* every item of the offending type; it raises only on another failure
C17_UnknownTypesOmitted ==
    attr_method = "add_attributes_bulk" =>
        /\ (apc = "Returned" =>
               /\ attr_result = KnownOnly(OriginalAttributes)
               /\ stored = KnownOnly(OriginalAttributes))
        /\ (apc = "Raised" =>
               attr_requests[Len(attr_requests)].response.errorCode # "attTypeNotFoundId")
        /\ \A i \in 2..Len(attr_requests) :
              LET before == attr_requests[i - 1] IN
              /\ before.response.errorCode = "attTypeNotFoundId"
              /\ \A j \in 1..Len(attr_requests[i].body) :
                    attr_requests[i].body[j].typeId # before.response.id
              /\ Len(attr_requests[i].body) =
                    Cardinality({ j \in 1..Len(before.body) :
                                    before.body[j].typeId # before.response.id })

\* three attributes, one of a type the catalog does not know: the other two
\* are created by the second request
C17_Witness ==
    /\ attr_method = "add_attributes_bulk"
    /\ apc = "Returned"
    /\ Len(OriginalAttributes) = 3
    /\ Cardinality(UnknownTypeItems(OriginalAttributes, known_types)) = 1
    /\ Len(attr_result) = 2
    /\ Len(stored) = 2
    /\ Len(attr_requests) = 2

\* C18: change_attributes_bulk tolerates the "type not found" 404 as
\* add_attributes_bulk does: it returns the items whose type the catalog
\* knows and raises only on another failure
C18_UpdateToleratesUnknownTypes ==
    attr_method = "change_attributes_bulk" =>
        /\ (apc = "Returned" =>
               /\ attr_result = KnownOnly(OriginalAttributes)
               /\ stored = KnownOnly(OriginalAttributes))
        /\ (apc = "Raised" =>
               attr_requests[Len(attr_requests)].response.errorCode # "attTypeNotFoundId")

(***************************************************************************)
(* Properties of the ownership synchronisation                             *)
(***************************************************************************)
\* the source users whose email is, case aside, the email of an owner user
\* or of a member of an owner group
MatchingSodaUsers ==
    { SodaUsers[u].userId : u \in
        { u \in 1..Len(SodaUsers) :
            \E o \in 1..Len(collibra_owners) :
               \E e \in 1..Len(CatalogEmails(collibra_owners[o].id)) :
                  Lower(SodaUsers[u].email) =
                     Lower(CatalogEmails(collibra_owners[o].id)[e]) } }

\* C19: an ownership synchronisation that found the table asset and its
\* responsibilities and ran to its end has sent one owner update if some
\* owner email matches a source user and none otherwise, and the update
\* carries exactly the source users matching an owner email
C19_PushesAllMatchedOwners ==
    opc \in {"Done", "NoOwners"} =>
        /\ Len(owner_pushes) = (IF MatchingSodaUsers # {} THEN 1 ELSE 0)
        /\ \A i \in 1..Len(owner_pushes) : owner_pushes[i] = MatchingSodaUsers

(***************************************************************************)
(* Properties of the run summary                                           *)
(***************************************************************************)
\* C20: when a run has finished, the summary's checks_created is the number
\* of assets the catalog created during the run and its checks_updated the
\* number of assets the catalog updated during the run
C20_SummaryCountsAppliedAssets ==
    pc = "Finished" =>
        /\ metrics.checks_created = applied.created
        /\ metrics.checks_updated = applied.updated

\* how often an error occurs in a list of errors
Occurrences(errors, error) ==
    Cardinality({ i \in 1..Len(errors) : errors[i] = error })

\* C21: when a run has finished, every error recorded for a dataset during
\* the run occurs in the overall error list exactly as often as it was
\* recorded: none is lost and none is duplicated
C21_ErrorsAggregatedExactlyOnce ==
    pc = "Finished" =>
        \A i \in 1..Len(recorded) :
            Occurrences(metrics.errors, recorded[i]) =
                Occurrences(recorded, recorded[i])

(***************************************************************************)
(* Properties of the call counters                                         *)
(***************************************************************************)
\* the requests a client sent that did not succeed: no response, or a
\* response with an error status
FailedRequests ==
    { i \in 1..Len(sent) : sent[i].answer.error # "" \/ ~Ok(sent[i].answer) }

\* C22: each request a client sent has incremented api_calls_made once, and
\* api_calls_failed once exactly when it did not succeed, a timeout or a
\* connection error included; api_calls_failed is at most api_calls_made
C22_EveryRequestCounted ==
    func \in {"execute_request", "delete_bulk_assets", "soda_execute_request"} =>
        /\ call_metrics.api_calls_made = Len(sent)
        /\ call_metrics.api_calls_failed = Cardinality(FailedRequests)
        /\ call_metrics.api_calls_failed <= call_metrics.api_calls_made

(***************************************************************************)
(* Properties of the exit status and of fatal failures                     *)
(***************************************************************************)
\* C23: a run that went through its dataset loop to the end returns exit
\* status 0, whatever errors were recorded for its datasets, and a run that
\* failed before any dataset was processed returns a status other than 0
C23_ExitStatusOfRun ==
    /\ pc = "Finished" => exit_code = 0
    /\ (pc = "Aborted" /\ attempted = <<>>) => exit_code > 0

\* a finished run with errors recorded for its datasets has returned 0
C23_Witness ==
    /\ pc = "Finished"
    /\ idx > Len(datasets)
    /\ recorded # <<>>
    /\ exit_code = 0

\* C24: while the source or the catalog cannot be reached at all, the run
\* does not enter its dataset loop: it is at its start or has aborted
C24_TotalOutageIsFatal ==
    outage # "none" =>
        /\ attempted = <<>>
        /\ pc \in {"Start", "Aborted"}

(***************************************************************************)
(* Properties of generate_asset_name                                       *)
(***************************************************************************)
\* the name generate_asset_name gives the arguments with a fresh set
BaseName(input) ==
    generate_asset_name(input.check_name, input.dataset_name, {}, input.database,
                        input.schema, input.column)

Suffixed(base_name, n) == base_name \o <<" ", "(">> \o ToStr(n) \o <<")">>

\* the base name, or the base name with the first suffix " (n)" not yet seen
FirstFreeName(base_name, seen) ==
    IF base_name \notin seen THEN base_name
    ELSE Suffixed(base_name,
                  CHOOSE n \in 1..(Cardinality(seen) + 1) :
                     /\ Suffixed(base_name, n) \notin seen
                     /\ \A j \in 1..(n - 1) : Suffixed(base_name, j) \in seen)

\* C25: every call of generate_asset_name returns the base name, or, when
\* that is in the seen set, the base name with the first suffix " (1)",
\* " (2)", ... that is not; the name returned was not in the set before the
\* call and is in it afterwards; and two calls with the same arguments and a
\* fresh set return the same name
C25_NamesDeterministicAndDistinct ==
    \A i \in 1..Len(generated) :
        LET call == generated[i] IN
        /\ call.asset_name = FirstFreeName(BaseName(call.input), call.before)
        /\ call.asset_name \notin call.before
        /\ call.asset_name \in call.after
        /\ \A j \in 1..Len(generated) :
              (/\ generated[j].input = call.input
               /\ generated[j].before = {}
               /\ call.before = {})
              => generated[j].asset_name = call.asset_name

\* three calls in a row with the same arguments: the third got " (2)"
C25_Witness ==
    \E i \in 1..Len(generated) :
        /\ generated[i].asset_name = Suffixed(BaseName(generated[i].input), 2)
        /\ BaseName(generated[i].input) \in generated[i].before
        /\ generated[i].asset_name \in used_names

(***************************************************************************)
(* Properties of the attribute definitions of a check                      *)
(***************************************************************************)
IsThreshold(d) == d.type = "threshold"

\* raw/100 written as a decimal without trailing zeros
ThresholdText(raw) ==
    CASE raw = 0 -> <<"0">>
      [] raw = 5 -> <<"0", ".", "0", "5">>
      [] raw = 100 -> <<"1">>

\* C26: when the definitions of a check are built, they hold one threshold
\* attribute with the value raw/100 if the check has a threshold with
\* "metric: percent" whose raw value lies in [0,100], and no threshold
\* attribute at all otherwise
C26_ThresholdOnlyForPercentInRange ==
    dpc = "Done" =>
        LET emitted == SelectSeq(attribute_definitions, IsThreshold) IN
        IF /\ soda_check.threshold \in 0..100
           /\ soda_check.metric_percent
        THEN emitted = <<Definition("threshold", ThresholdText(soda_check.threshold))>>
        ELSE emitted = <<>>

Emitted(type, value) ==
    \E i \in 1..Len(attribute_definitions) :
        /\ attribute_definitions[i].type = type
        /\ attribute_definitions[i].value = value

RowAttributeTypes ==
    {"check_loaded_rows_attribute", "check_rows_failed_attribute",
     "check_rows_passed_attribute", "check_passing_fraction_attribute"}

\* C27: after _add_diagnostic_attributes, a check with a positive
\* checkRowsTested has the loaded-rows attribute, the passed-rows attribute
\* (tested - failed) and the passing fraction (passed/tested as a percentage
\* with two decimals), whatever its failed-row count; a check without any
\* rows-tested count has none of the row attributes
C27_RowAttributesWheneverTested ==
    dpc \in {"Custom", "Done"} =>
        LET tested == soda_check.checkRowsTested
            failed == failed_rows_count(soda_check)
        IN
        /\ tested > 0 =>
              /\ Emitted("check_loaded_rows_attribute", tested)
              /\ Emitted("check_rows_passed_attribute", tested - failed)
              /\ Emitted("check_passing_fraction_attribute",
                         PassingFraction(tested - failed, tested))
        /\ (tested = Absent /\ soda_check.datasetRowsTested = Absent) =>
              \A i \in 1..Len(attribute_definitions) :
                 attribute_definitions[i].type \notin RowAttributeTypes

(***************************************************************************)
(* Properties of the repository's requests                                 *)
(***************************************************************************)
\* C28: a call of SodaRepository._make_request whose first answer is a 401,
\* a 403 or another 4xx sends no second request and reaches its caller as
\* NonRetryableError; a call whose every answer was a 429, a 5xx, a
\* connection error or a timeout reaches its caller as RetryableError after
\* max_attempts requests, carrying the status code of the last answer if
\* there was one
C28_RepositoryClassifiesFailures ==
    (func = "_make_request" /\ Len(sent) > 0) =>
        /\ (sent[1].answer.status >= 400 /\ ~Transient(sent[1].answer)) =>
               /\ Len(sent) = 1
               /\ cpc = "Surfaced" => raised.exc = "NonRetryableError"
        /\ (cpc = "Surfaced" /\ \A i \in 1..Len(sent) : Transient(sent[i].answer)) =>
               /\ raised.exc = "RetryableError"
               /\ Len(sent) = max_attempts
               /\ LastSent.answer.error = "" => raised.status = LastSent.answer.status

(***************************************************************************)
(* Properties of the pipeline service                                      *)
(***************************************************************************)
\* the layers whose quality gate failed in a strict pipeline, by their index
GateFailed(i) ==
    /\ strict
    /\ i \in 1..Len(results)
    /\ ~results[i].quality_result.quality_passed

\* C29: with strict=True and a failing quality gate the metadata sync is not
\* called for the layer, and the result of the layer has the status
\* "quality_gate_failed"
C29_StrictGateSkipsSync ==
    \A i \in 1..Len(results) :
        GateFailed(i) =>
            /\ \A n \in 1..Len(sync_calls) : sync_calls[n] # results[i].layer
            /\ results[i].status = "quality_gate_failed"

(***************************************************************************)
(* Properties of the lookup of a check's asset                             *)
(***************************************************************************)
\* the create and update requests _prepare_check_assets returned
AssetRequests == assets_to_create \o assets_to_update

\* the asset name _prepare_check_assets put in the request of check j
RequestedName(j) ==
    LET r == CHOOSE i \in 1..Len(AssetRequests) : AssetRequests[i].chk = j
    IN  AssetRequests[r].name

\* C30: in SyncAttributesAndRelations the name every check of the dataset is
\* looked up by equals the name DiffAssets gave the check, the writes of a
\* check go to the asset DiffAssets or ApplyCreate assigned to it, and once
\* the checks are through every asset created in the pass has received them
C30_LookupUsesAssignedName ==
    /\ pc = "SyncAttributesAndRelations" =>
          /\ \A j \in 1..Len(checks) :
                LookupName(Dataset, checks[j]) = RequestedName(j)
          /\ \A w \in writes : w.ds = idx => w.asset = assigned[w.chk]
    /\ (pc = StageAfter("SyncAttributesAndRelations") /\ ~passErrors[idx]) =>
          \A i \in 1..Len(assets_to_create) :
              \E w \in writes :
                  w.ds = idx /\ w.asset = assigned[assets_to_create[i].chk]

(***************************************************************************)
(* Properties of a dataset without checks                                  *)
(***************************************************************************)
\* the check assets of the current dataset in its resolved domain
DatasetAssets(assets) ==
    { a \in assets : a.domain = domain_id /\ BelongsTo(a.name, Dataset) }

\* _get_dataset_checks returned no check and the pass of the dataset ended
ReturnedWithoutChecks ==
    /\ pc = "FetchChecks"
    /\ idx' = idx + 1
    /\ outcome'[idx] = "processed"

\* C31: when the source returns no check for a dataset that still has check
\* assets of an earlier run, the pass runs the deletion sync against the empty
\* check list and the stale assets are removed
C31_EmptyCheckListStillDeletes ==
    [][(ReturnedWithoutChecks /\ DatasetAssets(catalog) # {}) =>
          /\ \E i \in 1..Len(ops') : ops'[i].stage = "SyncDeletions"
          /\ DatasetAssets(catalog') = {}]_vars

(***************************************************************************)
(* Properties of the dataset counters                                      *)
(***************************************************************************)
\* C32: at the end of a run the counters datasets_processed, datasets_skipped
\* and datasets_failed sum to the number of datasets fetched, and a skipped
\* dataset is not counted as processed as well
C32_DatasetCountersPartition ==
    pc = "Finished" =>
        /\ metrics.datasets_processed + metrics.datasets_skipped
              + metrics.datasets_failed = Len(datasets)
        /\ metrics.datasets_processed <= Len(datasets) - metrics.datasets_skipped

(***************************************************************************)
(* Properties of the pages of a list call                                  *)
(***************************************************************************)
\* the datasetId query parameter of a url
DatasetFilter(url) ==
    Param(url, <<"d", "a", "t", "a", "s", "e", "t", "I", "d">>)

\* C33: every page request of a list call carries the dataset filter of the
\* first request, and get_checks(dataset_id) returns only checks of that
\* dataset
C33_PagesKeepDatasetFilter ==
    /\ \A i \in 1..Len(requested) :
          DatasetFilter(requested[i]) = DatasetFilter(request_url)
    /\ (ppc = "Returned" /\ DatasetFilter(request_url) # None) =>
          \A i \in 1..Len(all_items) :
              all_items[i].datasetId = DatasetFilter(request_url)

\* C34: while pages of the list are left to fetch the list call does not
\* return: a page after the first that comes back empty or without content
\* makes the call fail
C34_BadPageFailsTheCall ==
    [][(ppc = "Paging" /\ page < total_pages - 1) => ppc' # "Returned"]_vars

(***************************************************************************)
(* Properties of a repeated run                                            *)
(***************************************************************************)
\* a run that follows a run that succeeded, over the same source
LaterRun == runsLeft < MaxRuns - 1

\* C35: a run over an unchanged source and the catalog a successful run left
\* creates no asset and no attribute and deletes nothing
C35_SecondRunChangesNothing ==
    LaterRun =>
        /\ applied.created = 0
        /\ applied.attributes = 0
        /\ deletions = <<>>
        /\ \A i \in 1..Len(ops) : ops[i].op \notin {"add_assets_bulk", "delete_bulk_assets"}

(***************************************************************************)
(* Properties of add_attributes_bulk against any backend                   *)
(***************************************************************************)
\* C36: every retry of add_attributes_bulk after a "type not found" 404 is
\* made with a strictly smaller attribute list, and a call with n attributes
\* issues at most n + 1 requests, whatever type id the backend reports
C36_RetriesShrinkTheList ==
    attr_method = "add_attributes_bulk" =>
        /\ \A i \in 2..Len(attr_requests) :
              Len(attr_requests[i].body) < Len(attr_requests[i - 1].body)
        /\ Len(attr_requests) > 0 =>
              Len(attr_requests) <= Len(OriginalAttributes) + 1

(***************************************************************************)
(* The attributes and the table relation of one check, and their counters  *)
(* (integration.py _execute_attribute_operations, _create_table_relation)  *)
(***************************************************************************)
\* what the catalog answers to set_relations: the relation is created, the
\* 404 "relationTypeNotFoundId", or another failure
RelationAnswers == {"created", "relationTypeNotFoundId", "error"}

\* CollibraClient.set_relations: the list it returns
set_relations(answer, related_asset_ids) ==
    IF answer = "created" THEN related_asset_ids ELSE <<>>

\* _execute_attribute_operations after add_attributes_bulk returned: the
\* attributes handed to the client are counted
ExecuteAttributeOperations ==
    /\ apc = "Returned" /\ attr_method = "add_attributes_bulk"
    /\ attribute_metrics' = [attribute_metrics EXCEPT
          !.attributes_created = @ + Len(OriginalAttributes)]
    /\ apc' = "Relations"
    /\ UNCHANGED <<known_types, attributes, attr_method, attr_result, stored,
                   attr_requests, relation_store>>
    /\ UNCHANGED <<engineVars, clientVars, callVars, ownerVars, functionVars>>

\* _create_table_relation: set_relations, then the relation is counted
CreateTableRelation ==
    /\ apc = "Relations"
    /\ \E answer \in RelationAnswers :
         IF answer = "error"
         THEN /\ apc' = "Raised"
              /\ UNCHANGED <<attribute_metrics, relation_store>>
         ELSE /\ relation_store' = relation_store \o set_relations(answer, <<"table">>)
              /\ attribute_metrics' = [attribute_metrics EXCEPT
                    !.table_relations_created = @ + 1]
              /\ apc' = "Done"
    /\ UNCHANGED <<known_types, attributes, attr_method, attr_result, stored,
                   attr_requests>>
    /\ UNCHANGED <<engineVars, clientVars, callVars, ownerVars, functionVars>>

InitCounting ==
    /\ InitAttributes
    /\ attr_method = "add_attributes_bulk"

NextCounting ==
    \/ AddAttributesBulk
    \/ ExecuteAttributeOperations
    \/ CreateTableRelation

SpecCounting == InitCounting /\ [][NextCounting]_vars

\* C37: attributes_created never exceeds the attributes the catalog created
\* and the relation counter never exceeds the relations it created: items the
\* client dropped for an unknown attribute type, and a relation of an unknown
\* relation type, are not counted
C37_CountersMatchTheCatalog ==
    /\ attribute_metrics.attributes_created <= Len(stored)
    /\ attribute_metrics.table_relations_created <= Len(relation_store)

\* no call of get, put or close_all is running in any thread
Quiescent == \A t \in Threads : threads[t].pc \in {"idle", "holding"}

\* the threads that got a connection and have not put it back
CheckedOut == { t \in Threads : threads[t].pc = "holding" }

\* C38: under any interleaving of get, put and close_all the pool never has
\* more than max_size live connections, its active count is never negative,
\* and between the calls the active count is the number of connections that
\* are checked out
C38_PoolCountsConnections ==
    threads # <<>> =>
        /\ Cardinality(live) <= PoolMaxSize
        /\ pool_active >= 0
        /\ Quiescent => pool_active = Cardinality(CheckedOut)

\* wait_for_job_completion has returned or raised
WaitEnded == wpc \in {"Returned", "Raised"}

\* the last answer of get_job_status
LastReported == reported[Len(reported)]

\* what wait_for_job_completion returned or raised is what the job reported
WaitOutcomeJustified ==
    /\ wpc = "Returned" =>
           /\ job_result.status = "COMPLETED"
           /\ LastReported = job_result
    /\ wpc = "Raised" =>
           \/ /\ job_result.exc = "RuntimeError"
              /\ LastReported.status \in {"FAILED", "CANCELLED", "CANCELED"}
           \/ /\ job_result.exc = "TimeoutError"
              /\ elapsed_time > MaxWaitTime

\* C39: wait_for_job_completion always terminates; it returns a status only
\* for a job that reported COMPLETED, and otherwise raises RuntimeError for a
\* job that reported FAILED or CANCELLED, or a timeout error once
\* max_wait_time has elapsed
C39_WaitEndsWithTheJob == <>WaitEnded /\ []WaitOutcomeJustified

(***************************************************************************)
(* Properties of the status of the pipeline                                *)
(***************************************************************************)
\* C40: a pipeline run with strict=True whose quality gate failed for at
\* least one layer does not return the overall status "success"
C40_FailedGateFailsThePipeline ==
    (gpc = "Returned" /\ \E i \in 1..Len(results) : GateFailed(i)) =>
        pipeline_status # "success"

====
